---- MODULE Spec2Model ----
(***************************************************************************)
(* nutune: synchronisation of a selection of albums and playlists of a     *)
(* Subsonic library onto a removable device.                               *)
(*                                                                         *)
(* The module models                                                       *)
(*   - the manifest (src/src/device/manifest.rs),                          *)
(*   - the reconciliation done by the browser (build_selection and         *)
(*     calculate_deletions of src/src/browse/interactive.rs),              *)
(*   - the sync engine (src/src/sync/engine.rs) with both entry points,    *)
(*     sync (the `sync` command) and sync_with_progress (the browser).     *)
(***************************************************************************)
EXTENDS Integers, Sequences, FiniteSets, TLC

(***************************************************************************)
(* Bounds of the model.                                                    *)
(***************************************************************************)
\* Largest number of songs of an album or playlist of the catalog.
MaxTracks == 2

(***************************************************************************)
(* The catalog: ids of the albums and playlists of the library.            *)
(***************************************************************************)
AlbumIds == {"a1", "a2"}

PlaylistIds == {"p1"}

TrackCounts == 0..MaxTracks

\* Option: None is the empty sequence and Some(x) the sequence of x alone.
None == <<>>

Some(x) == <<x>>

(***************************************************************************)
(* Helpers on sequences.                                                   *)
(***************************************************************************)
Range(s) == {s[i] : i \in DOMAIN s}

\* Ids of a list of records.
Ids(s) == {s[i].id : i \in DOMAIN s}

\* Number of records of list s carrying id.
CountId(s, id) == Cardinality({i \in DOMAIN s : s[i].id = id})

\* Iterator::find: Some(the first record with this id), None when there is none.
FindId(s, id) ==
    IF \E i \in DOMAIN s : s[i].id = id
    THEN Some(s[CHOOSE i \in DOMAIN s :
                  /\ s[i].id = id
                  /\ \A j \in DOMAIN s : s[j].id = id => i <= j])
    ELSE None

(***************************************************************************)
(* SyncManifest (src/src/device/manifest.rs).  The fields version,         *)
(* subsonic_url and the timestamps take no part in any decision of the     *)
(* program and are left out.                                               *)
(***************************************************************************)
\* SyncedAlbum records the model draws from: the artist and album names
\* are the ones of the catalog or a stale pair (a renamed album).
\* Names are sequences of characters.
ArtistName == <<"A", "r", "t">>

ArtistNames == {ArtistName}

AlbumNames == {<<"O", "n", "e">>, <<"T", "w", "o">>}

PlaylistName == <<"M", "i", "x">>

PlaylistNames == {PlaylistName}

SyncedAlbum == [id : AlbumIds, artist : ArtistNames, album : AlbumNames,
                track_count : TrackCounts]

SyncedPlaylist == [id : PlaylistIds, name : PlaylistNames, track_count : TrackCounts]

\* SyncManifest::new
NewManifest == [synced_albums |-> <<>>, synced_playlists |-> <<>>]

is_album_synced(m, album_id) == \E i \in DOMAIN m.synced_albums : m.synced_albums[i].id = album_id

is_playlist_synced(m, playlist_id) ==
    \E i \in DOMAIN m.synced_playlists : m.synced_playlists[i].id = playlist_id

\* A faulty add_album: appends without removing the stale record.
add_album_append_only(m, album) ==
    [m EXCEPT !.synced_albums = Append(m.synced_albums, album)]

add_album(m, album) ==
    LET NotSame(a) == a.id # album.id
    IN  [m EXCEPT !.synced_albums = Append(SelectSeq(m.synced_albums, NotSame), album)]

add_playlist(m, playlist) ==
    LET NotSame(p) == p.id # playlist.id
    IN  [m EXCEPT !.synced_playlists = Append(SelectSeq(m.synced_playlists, NotSame), playlist)]

\* At most one record per id.
UniqueIds(m) ==
    /\ \A id \in AlbumIds : CountId(m.synced_albums, id) <= 1
    /\ \A id \in PlaylistIds : CountId(m.synced_playlists, id) <= 1

\* Lists of records without repeated id.
UniqueSeqs(S, n) ==
    {s \in UNION {[1..k -> S] : k \in 0..n} :
        \A i, j \in DOMAIN s : s[i].id = s[j].id => i = j}

(***************************************************************************)
(* Catalog objects (src/src/subsonic/models.rs) and devices.               *)
(***************************************************************************)
\* The library has one artist, whose albums are AlbumIds.
ArtistIds == {"r1"}

AlbumNameOf(id) == IF id = "a1" THEN <<"O", "n", "e">> ELSE <<"T", "w", "o">>

\* Album as the catalog returns it (client.get_artist).
CatalogAlbum(id) == [id |-> id, name |-> AlbumNameOf(id), artist |-> ArtistName, cover_art |-> id = "a1"]

\* Playlist as the catalog returns it (client.get_playlists).
CatalogPlaylist(id) == [id |-> id, name |-> PlaylistName]

\* Removable devices that DeviceDetector::scan finds, in scan order.
Devices == <<"d1", "d2">>

DeviceSet == Range(Devices)

\* Content of the file .nutune-manifest.json of a device.
AbsentFile == [kind |-> "absent"]

CorruptFile == [kind |-> "corrupt"]

ManifestFile(m) == [kind |-> "ok", manifest |-> m]

\* SyncManifest::load: Ok(None) without a file, Err for an unparsable file.
load(file) ==
    CASE file.kind = "absent" -> [kind |-> "none"]
      [] file.kind = "corrupt" -> [kind |-> "err"]
      [] OTHER -> [kind |-> "some", manifest |-> file.manifest]

\* All orders in which a HashSet may be iterated.
Orderings(S) ==
    {s \in [1..Cardinality(S) -> S] : \A i, j \in DOMAIN s : s[i] = s[j] => i = j}

(***************************************************************************)
(* File names (src/src/utils/sanitize.rs) and the storage layer            *)
(* (src/src/device/storage.rs).                                            *)
(***************************************************************************)
\* The replacement sanitize_filename makes for one character.
SanitizeChar(c) ==
    CASE c = "/" -> "U+29F8"
      [] c = "\\" -> "U+29F9"
      [] c = ":" -> "U+A789"
      [] c = "*" -> "U+204E"
      [] c = "?" -> "U+FF1F"
      [] c = "\"" -> "U+2033"
      [] c = "<" -> "U+2039"
      [] c = ">" -> "U+203A"
      [] c = "|" -> "U+FF5C"
      [] c = "NUL" -> "_"
      [] OTHER -> c

IsWhitespace(c) == c \in {" ", "\t", "\n"}

\* str::trim
RECURSIVE TrimStart(_)
TrimStart(s) == IF s # <<>> /\ IsWhitespace(Head(s)) THEN TrimStart(Tail(s)) ELSE s

RECURSIVE TrimEnd(_)
TrimEnd(s) ==
    IF s # <<>> /\ IsWhitespace(s[Len(s)]) THEN TrimEnd(SubSeq(s, 1, Len(s) - 1)) ELSE s

\* sanitize_filename without the trim: what SanitizedNames must tell from
\* the function, which trims after replacing.
sanitize_filename_untrimmed(name) == [i \in DOMAIN name |-> SanitizeChar(name[i])]

sanitize_filename(name) == TrimEnd(TrimStart([i \in DOMAIN name |-> SanitizeChar(name[i])]))

\* The songs of the catalog: album a2 holds one recording twice (a file the
\* library has two copies of), every other album and playlist has MaxTracks
\* songs.
SongCount(id) == IF id = "a2" THEN 2 ELSE MaxTracks

DigitChar(t) == <<"1", "2", "3", "4", "5", "6", "7", "8", "9">>[t]

\* Song number t of album or playlist id, as get_album / get_playlist answer:
\* the two songs of a2 have their own ids and the same tags.
Song(id, t) ==
    [id |-> <<id, t>>,
     title |-> <<"s", DigitChar(IF id = "a2" THEN 1 ELSE t)>>,
     track |-> Some(IF id = "a2" THEN 1 ELSE t),
     suffix |-> Some("mp3"), artist |-> Some(ArtistName),
     cover_art |-> IF id = "p1" /\ t = 1 THEN Some("c1") ELSE None]

\* Option::unwrap_or
unwrap_or(opt, default) == IF opt = None THEN default ELSE opt[1]

\* The bytes of a track file: the audio of a song, with or without the cover
\* embedded.
AudioData(song, embedded) == <<song.id, embedded>>

SongsOf(id) == [t \in 1..SongCount(id) |-> Song(id, t)]

\* The content of a device below its mount point: the directories, and the
\* files by kind.  An album directory is <<"Artists", artist, album>>, a
\* playlist directory is <<"Playlists", name>>.
EmptyVolume == [dirs |-> {}, album_tracks |-> {}, covers |-> {}, playlist_tracks |-> {}, m3u |-> {}]

artists_dir == <<"Artists">>

playlists_dir == <<"Playlists">>

AlbumDir(artist, album) == <<"Artists", sanitize_filename(artist), sanitize_filename(album)>>

PlaylistDir(name) == <<"Playlists", sanitize_filename(name)>>

\* DeviceStorage::init
init(v) == [v EXCEPT !.dirs = @ \cup {artists_dir, playlists_dir}]

\* DeviceStorage::create_album_folder (create_dir_all)
create_album_folder(v, artist, album) ==
    [v EXCEPT !.dirs = @ \cup {artists_dir, <<"Artists", sanitize_filename(artist)>>,
                               AlbumDir(artist, album)}]

\* DeviceStorage::create_playlist_folder (create_dir_all)
create_playlist_folder(v, name) ==
    [v EXCEPT !.dirs = @ \cup {playlists_dir, PlaylistDir(name)}]

\* The file name write_album_track builds: "{:02} - {}.{}"
AlbumTrackFile(track_number, title, extension) ==
    <<track_number, sanitize_filename(title), extension>>

\* The file name write_playlist_track builds: "{} - {}.{}"
PlaylistTrackFile(artist, title, extension) ==
    <<sanitize_filename(artist), sanitize_filename(title), extension>>

\* fs::write of data to the file name in dir: an existing file is replaced.
PutFile(files, dir, name, data) ==
    {f \in files : ~(f[1] = dir /\ f[2] = name)} \cup {<<dir, name, data>>}

\* DeviceStorage::write_album_track when both steps succeed
write_album_track(v, artist, album, track_number, title, extension, data) ==
    LET v1 == create_album_folder(v, artist, album)
    IN  [v1 EXCEPT !.album_tracks =
            PutFile(@, AlbumDir(artist, album),
                    AlbumTrackFile(track_number, title, extension), data)]

\* DeviceStorage::write_playlist_track when both steps succeed
write_playlist_track(v, playlist_name, artist, title, extension, data) ==
    LET v1 == create_playlist_folder(v, playlist_name)
    IN  [v1 EXCEPT !.playlist_tracks =
            PutFile(@, PlaylistDir(playlist_name),
                    PlaylistTrackFile(artist, title, extension), data)]

\* DeviceStorage::write_cover_art when both steps succeed
write_cover_art(v, artist, album) ==
    LET v1 == create_album_folder(v, artist, album)
    IN  [v1 EXCEPT !.covers = @ \cup {AlbumDir(artist, album)}]

\* An index that lists the tracks last written first: what PlaylistIndex
\* must tell from generate_m3u, which keeps the order of its argument.
generate_m3u_reversed(tracks) ==
    <<"#EXTM3U">> \o [k \in DOMAIN tracks |-> tracks[Len(tracks) + 1 - k]]

\* generate_m3u: the header line, then one line per track
generate_m3u(tracks) == <<"#EXTM3U">> \o tracks

\* DeviceStorage::write_m3u when both steps succeed
write_m3u(v, playlist_name, tracks) ==
    LET v1 == create_playlist_folder(v, playlist_name)
        dir == PlaylistDir(playlist_name)
    IN  [v1 EXCEPT !.m3u = {f \in @ : f[1] # dir} \cup {<<dir, generate_m3u(tracks)>>}]

\* DeviceStorage::delete_album when the removal succeeds: the album
\* directory and what it holds are gone.
delete_album(v, artist, album) ==
    LET dir == AlbumDir(artist, album)
    IN  [v EXCEPT !.dirs = @ \ {dir},
                  !.album_tracks = {f \in @ : f[1] # dir},
                  !.covers = @ \ {dir}]

\* DeviceStorage::delete_playlist when the removal succeeds
delete_playlist(v, name) ==
    LET dir == PlaylistDir(name)
    IN  [v EXCEPT !.dirs = @ \ {dir},
                  !.playlist_tracks = {f \in @ : f[1] # dir},
                  !.m3u = {f \in @ : f[1] # dir}]

\* SyncManifest::remove_album: no-op when the id is absent
remove_album(m, album_id) ==
    LET NotSame(a) == a.id # album_id
    IN  [m EXCEPT !.synced_albums = SelectSeq(m.synced_albums, NotSame)]

\* SyncManifest::remove_playlist: no-op when the id is absent
remove_playlist(m, playlist_id) ==
    LET NotSame(p) == p.id # playlist_id
    IN  [m EXCEPT !.synced_playlists = SelectSeq(m.synced_playlists, NotSame)]

\* The volume an earlier sync that wrote manifest m left behind: every
\* recorded album and playlist has its directory and track_count files.
VolumeOf(m) ==
    LET albums == m.synced_albums
        playlists == m.synced_playlists
        adirs == {AlbumDir(albums[i].artist, albums[i].album) : i \in DOMAIN albums}
        pdirs == {PlaylistDir(playlists[i].name) : i \in DOMAIN playlists}
    IN  [dirs |-> {artists_dir, playlists_dir} \cup adirs \cup pdirs
                    \cup {<<"Artists", sanitize_filename(albums[i].artist)>> : i \in DOMAIN albums},
         album_tracks |-> UNION {{<<AlbumDir(albums[i].artist, albums[i].album),
                                    AlbumTrackFile(unwrap_or(Song(albums[i].id, t).track, 1),
                                                   Song(albums[i].id, t).title, "mp3"),
                                    AudioData(Song(albums[i].id, t), FALSE)>> :
                                        t \in 1..albums[i].track_count} : i \in DOMAIN albums},
         covers |-> {},
         playlist_tracks |-> UNION {{<<PlaylistDir(playlists[i].name),
                                       PlaylistTrackFile(ArtistName, Song(playlists[i].id, t).title, "mp3"),
                                       AudioData(Song(playlists[i].id, t), FALSE)>> :
                                        t \in 1..playlists[i].track_count} : i \in DOMAIN playlists},
         m3u |-> {<<PlaylistDir(playlists[i].name),
                    generate_m3u([t \in 1..playlists[i].track_count |->
                        PlaylistTrackFile(ArtistName, Song(playlists[i].id, t).title, "mp3")])>> :
                        i \in DOMAIN playlists}]

VARIABLES
    manifest,       \* the SyncManifest value held in memory
    lastUpsert,     \* history: id -> Some(record of the latest add_album / add_playlist) or None
    prevUpsert,     \* history: id -> Some(record of the upsert before the latest) or None
    state,          \* BrowserState of the browser
    disk,           \* device -> content of its manifest file
    tasks,          \* the sync tasks start_sync has spawned, in order
    eng,            \* the sync task: its position, its arguments and its locals
    vol,            \* the directories and files of the device the task syncs to
    events,         \* the SyncProgress events the task has sent, in order
    hist,           \* history: what the runs of the task have done so far
    chan,           \* the events buffered in the progress channel, oldest first
    received,       \* the events handle_sync_progress_event has been given, in order
    rx              \* the receiver of the channel: "none", "open" or "closed"

manifestVars == <<manifest, lastUpsert, prevUpsert>>

browseVars == <<state, disk, tasks>>

channelVars == <<chan, received, rx>>

engineVars == <<eng, vol, events, hist, channelVars>>

vars == <<manifest, lastUpsert, prevUpsert, state, disk, tasks, eng, vol, events, hist,
          chan, received, rx>>

\* The channel while another part of the program is checked.
ChannelIdle ==
    /\ chan = <<>>
    /\ received = <<>>
    /\ rx = "none"

\* The variables of the sync task while another part of the program is checked.
EngineIdle ==
    /\ eng = [pc |-> "idle"]
    /\ vol = EmptyVolume
    /\ events = <<>>
    /\ hist = [run |-> 0]
    /\ ChannelIdle

\* The variables of the browser while another part of the program is checked.
BrowseIdle ==
    /\ state = [view |-> "Exited"]
    /\ disk = [d \in DeviceSet |-> AbsentFile]
    /\ tasks = <<>>

\* The manifest variables while another part of the program is checked.
ManifestIdle ==
    /\ manifest = NewManifest
    /\ lastUpsert = [id \in AlbumIds \cup PlaylistIds |-> None]
    /\ prevUpsert = [id \in AlbumIds \cup PlaylistIds |-> None]

(***************************************************************************)
(* SpecManifest: any sequence of add_album and add_playlist calls on a     *)
(* manifest that starts with at most one record per id.                    *)
(***************************************************************************)
ManifestInit ==
    /\ manifest \in [synced_albums : UniqueSeqs(SyncedAlbum, 1),
                     synced_playlists : UniqueSeqs(SyncedPlaylist, 1)]
    /\ lastUpsert = [id \in AlbumIds \cup PlaylistIds |-> None]
    /\ prevUpsert = [id \in AlbumIds \cup PlaylistIds |-> None]
    /\ BrowseIdle
    /\ EngineIdle

ManifestAddAlbum ==
    \E album \in SyncedAlbum :
        /\ manifest' = add_album(manifest, album)
        /\ prevUpsert' = [prevUpsert EXCEPT ![album.id] = lastUpsert[album.id]]
        /\ lastUpsert' = [lastUpsert EXCEPT ![album.id] = Some(album)]
        /\ UNCHANGED <<browseVars, engineVars>>

ManifestAddPlaylist ==
    \E playlist \in SyncedPlaylist :
        /\ manifest' = add_playlist(manifest, playlist)
        /\ prevUpsert' = [prevUpsert EXCEPT ![playlist.id] = lastUpsert[playlist.id]]
        /\ lastUpsert' = [lastUpsert EXCEPT ![playlist.id] = Some(playlist)]
        /\ UNCHANGED <<browseVars, engineVars>>

ManifestNext == ManifestAddAlbum \/ ManifestAddPlaylist

SpecManifest == ManifestInit /\ [][ManifestNext]_vars

(***************************************************************************)
(* C4: after any sequence of add_album and add_playlist calls the manifest *)
(* holds at most one album record and at most one playlist record per id,  *)
(* and the record stored for an id that was upserted is the one passed to  *)
(* the most recent upsert of that id.                                      *)
(***************************************************************************)
UpsertUniqueness ==
    /\ UniqueIds(manifest)
    /\ \A id \in AlbumIds :
          lastUpsert[id] # None => FindId(manifest.synced_albums, id) = lastUpsert[id]
    /\ \A id \in PlaylistIds :
          lastUpsert[id] # None => FindId(manifest.synced_playlists, id) = lastUpsert[id]

\* An id upserted twice with different records, stored once.
UpsertUniquenessWitness ==
    \E id \in AlbumIds :
        /\ prevUpsert[id] # None
        /\ prevUpsert[id] # lastUpsert[id]
        /\ CountId(manifest.synced_albums, id) = 1
        /\ Len(manifest.synced_albums) = 2

(***************************************************************************)
(* The browser (src/src/browse/interactive.rs).  BrowserState is the       *)
(* record state; the fields that only drive the display (list_state,       *)
(* status_message, the search filter, the help overlay, selected_artists)  *)
(* are left out, and the cursor position is an input of the key handlers.  *)
(* The views AlbumTracks and PlaylistTracks are reached with Enter from    *)
(* Albums and Playlists.                                                   *)
(***************************************************************************)
Views == {"Artists", "Albums", "AlbumTracks", "Playlists", "PlaylistTracks",
          "DeviceSelection", "SyncConfirmation", "SyncProgress"}

\* BrowserState::new
NewBrowserState(view) ==
    [view |-> view,
     artists_loaded |-> FALSE,
     albums_loaded |-> FALSE,
     playlists_loaded |-> FALSE,
     mounted_devices |-> <<>>,
     selected_albums |-> {},
     selected_playlists |-> {},
     artist_album_ids |-> [r \in ArtistIds |-> None],
     album_cache |-> [id \in AlbumIds |-> None],
     is_complete |-> FALSE,
     selected_device |-> None,
     sync_selection |-> None,
     pending_deletions |-> None,
     synced_album_ids |-> {},
     synced_playlist_ids |-> {},
     active_device |-> None]

\* The album and playlist lists the views show.
ArtistList(st) == IF st.artists_loaded THEN ArtistIds ELSE {}

AlbumList(st) == IF st.albums_loaded THEN AlbumIds ELSE {}

PlaylistList(st) == IF st.playlists_loaded THEN PlaylistIds ELSE {}

load_synced_content(st, device) ==
    LET r == load(disk[device])
    IN  IF r.kind = "some"
        THEN [st EXCEPT !.synced_album_ids = Ids(r.manifest.synced_albums),
                        !.synced_playlist_ids = Ids(r.manifest.synced_playlists),
                        !.active_device = Some(device)]
        ELSE st

\* Album object built from a manifest record.
AlbumOfRecord(synced) ==
    [id |-> synced.id, name |-> synced.album, artist |-> synced.artist, cover_art |-> FALSE]

load_and_select_synced_content(st, device) ==
    LET r == load(disk[device])
    IN  IF r.kind = "some"
        THEN LET albums == r.manifest.synced_albums
                 synced == Ids(albums)
                 ArtistHit(a) == st.artists_loaded /\ \E i \in DOMAIN albums : albums[i].artist = ArtistName
             IN  [st EXCEPT
                    !.synced_album_ids = synced,
                    !.synced_playlist_ids = Ids(r.manifest.synced_playlists),
                    !.active_device = Some(device),
                    !.selected_albums = synced,
                    !.selected_playlists = Ids(r.manifest.synced_playlists),
                    !.album_cache = [id \in AlbumIds |->
                        IF id \in synced /\ st.album_cache[id] = None
                        THEN Some(AlbumOfRecord(FindId(albums, id)[1]))
                        ELSE st.album_cache[id]],
                    !.artist_album_ids = [a \in ArtistIds |->
                        IF ArtistHit(a)
                        THEN Some({albums[i].id : i \in {j \in DOMAIN albums : albums[j].artist = ArtistName}})
                        ELSE st.artist_album_ids[a]]]
        ELSE st

toggle_artist_selection(st, artist_id) ==
    IF st.artist_album_ids[artist_id] # None
    THEN LET album_ids == st.artist_album_ids[artist_id][1]
         IN  IF album_ids \subseteq st.selected_albums
             THEN [st EXCEPT !.selected_albums = @ \ album_ids]
             ELSE [st EXCEPT !.selected_albums = @ \cup album_ids]
    ELSE st

\* A faulty build_selection: the already synced ids are not filtered out.
build_selection_with_synced(st) ==
    LET albums == {id \in st.selected_albums : st.album_cache[id] # None}
        playlists == {id \in st.selected_playlists : id \in PlaylistList(st)}
    IN  {[albums |-> [i \in DOMAIN sa |-> st.album_cache[sa[i]][1]],
          playlists |-> [i \in DOMAIN sp |-> CatalogPlaylist(sp[i])]] :
            sa \in Orderings(albums), sp \in Orderings(playlists)}

\* The selections build_selection may return: the selected ids are hash
\* sets, iterated in any order.
build_selection(st) ==
    LET albums == {id \in st.selected_albums :
                      id \notin st.synced_album_ids /\ st.album_cache[id] # None}
        playlists == {id \in st.selected_playlists :
                      id \notin st.synced_playlist_ids /\ id \in PlaylistList(st)}
    IN  {[albums |-> [i \in DOMAIN sa |-> st.album_cache[sa[i]][1]],
          playlists |-> [i \in DOMAIN sp |-> CatalogPlaylist(sp[i])]] :
            sa \in Orderings(albums), sp \in Orderings(playlists)}

\* The deletion sets calculate_deletions may return.
calculate_deletions(st) ==
    LET r == IF st.active_device = None THEN [kind |-> "none"]
             ELSE load(disk[st.active_device[1]])
    IN  IF r.kind = "some"
        THEN LET albums == {id \in st.synced_album_ids :
                               id \notin st.selected_albums
                               /\ FindId(r.manifest.synced_albums, id) # None}
                 playlists == {id \in st.synced_playlist_ids :
                               id \notin st.selected_playlists
                               /\ FindId(r.manifest.synced_playlists, id) # None}
                 AlbumEntry(id) == LET synced == FindId(r.manifest.synced_albums, id)[1]
                                   IN  [id |-> id, artist |-> synced.artist, album |-> synced.album]
                 PlaylistEntry(id) == LET synced == FindId(r.manifest.synced_playlists, id)[1]
                                      IN  [id |-> id, name |-> synced.name]
             IN  {[albums |-> [i \in DOMAIN da |-> AlbumEntry(da[i])],
                   playlists |-> [i \in DOMAIN dp |-> PlaylistEntry(dp[i])]] :
                     da \in Orderings(albums), dp \in Orderings(playlists)}
        ELSE {[albums |-> <<>>, playlists |-> <<>>]}

\* SyncSelection::is_empty and DeletionSelection::is_empty
is_empty(sel) == sel.albums = <<>> /\ sel.playlists = <<>>

\* start_sync: spawns the sync task and switches to the progress view.
start_sync(st, selection, deletions) ==
    IF st.selected_device = None
    THEN /\ state' = st
         /\ UNCHANGED tasks
    ELSE /\ state' = [st EXCEPT !.sync_selection = Some(selection),
                                !.pending_deletions = Some(deletions),
                                !.is_complete = FALSE,
                                !.view = "SyncProgress"]
         /\ tasks' = Append(tasks, [device |-> st.selected_device[1],
                                    selection |-> selection,
                                    deletions |-> deletions])

\* SyncedAlbum and SyncedPlaylist records of an earlier sync of the catalog.
RecordOfAlbum(id) == [id |-> id, artist |-> ArtistName, album |-> AlbumNameOf(id), track_count |-> 1]

RecordOfPlaylist(id) == [id |-> id, name |-> PlaylistName, track_count |-> 1]

\* A manifest that lists the albums of the sequence sa and the playlists of sp.
ManifestOf(sa, sp) ==
    [synced_albums |-> [i \in DOMAIN sa |-> RecordOfAlbum(sa[i])],
     synced_playlists |-> [i \in DOMAIN sp |-> RecordOfPlaylist(sp[i])]]

\* The manifest files the devices may hold when the browser starts.
FirstDeviceFiles ==
    {AbsentFile, CorruptFile}
        \cup {ManifestFile(ManifestOf(sa, sp)) :
                sa \in {<<>>, <<"a1">>, <<"a2">>, <<"a1", "a2">>}, sp \in {<<>>, <<"p1">>}}

SecondDeviceFiles == {AbsentFile, CorruptFile, ManifestFile(ManifestOf(<<"a2">>, <<>>))}

\* run_browser up to the main loop: the manifest of the first device found
\* is loaded, then the list of the initial view.
BrowseInit ==
    /\ disk \in [d1 : FirstDeviceFiles, d2 : SecondDeviceFiles]
    /\ \E initial_view \in {"Artists", "Playlists"}, found \in {<<>>, Devices} :
          LET st0 == NewBrowserState(initial_view)
              st1 == IF found # <<>> THEN load_synced_content(st0, found[1]) ELSE st0
          IN  state = IF initial_view = "Artists"
                      THEN [st1 EXCEPT !.artists_loaded = TRUE]
                      ELSE [st1 EXCEPT !.playlists_loaded = TRUE]
    /\ tasks = <<>>
    /\ ManifestIdle
    /\ EngineIdle

Running == state.view \in Views

\* run_browser_loop returns.
Exit ==
    /\ state' = [view |-> "Exited"]
    /\ UNCHANGED tasks

\* KeyCode::Char('q')
KeyQ ==
    /\ Running
    /\ IF state.view = "DeviceSelection"
       THEN state' = [state EXCEPT !.view = "Artists"] /\ UNCHANGED tasks
       ELSE IF state.view = "SyncProgress"
            THEN IF state.is_complete THEN Exit ELSE UNCHANGED <<state, tasks>>
            ELSE Exit
    /\ UNCHANGED <<disk, manifestVars, engineVars>>

\* handle_back
handle_back(st) ==
    CASE st.view = "Albums" -> [st EXCEPT !.view = "Artists"]
      [] st.view = "AlbumTracks" -> [st EXCEPT !.view = "Artists"]
      [] st.view = "PlaylistTracks" -> [st EXCEPT !.view = "Playlists"]
      [] OTHER -> st

\* KeyCode::Esc (with no search filter active)
KeyEsc ==
    /\ Running
    /\ state' = IF state.view = "DeviceSelection"
                THEN [state EXCEPT !.view = "Artists"]
                ELSE IF state.view = "SyncConfirmation"
                     THEN [state EXCEPT !.sync_selection = None,
                                        !.pending_deletions = None,
                                        !.view = "Artists"]
                     ELSE IF state.view # "SyncProgress" THEN handle_back(state) ELSE state
    /\ UNCHANGED <<tasks, disk, manifestVars, engineVars>>

\* KeyCode::Backspace | KeyCode::Left | KeyCode::Char('h')
KeyBackspace ==
    /\ Running
    /\ state' = IF state.view = "DeviceSelection"
                THEN [state EXCEPT !.view = "Artists"]
                ELSE IF state.view # "SyncProgress" THEN handle_back(state) ELSE state
    /\ UNCHANGED <<tasks, disk, manifestVars, engineVars>>

\* An 's' key that is not ignored in the progress view: what SingleWriter
\* must tell from the view test of the 's' key.
KeySDuringSync ==
    /\ Running
    /\ state.view \notin {"DeviceSelection", "SyncConfirmation"}
    /\ \E selection \in build_selection(state), deletions \in calculate_deletions(state) :
          IF is_empty(selection) /\ is_empty(deletions)
          THEN UNCHANGED <<state, tasks>>
          ELSE IF state.selected_device # None
               THEN IF ~is_empty(deletions)
                    THEN /\ state' = [state EXCEPT !.sync_selection = Some(selection),
                                                   !.pending_deletions = Some(deletions),
                                                   !.view = "SyncConfirmation"]
                         /\ UNCHANGED tasks
                    ELSE start_sync(state, selection, deletions)
               ELSE UNCHANGED <<state, tasks>>
    /\ UNCHANGED <<disk, manifestVars, engineVars>>

\* An 's' key that starts the sync at once whatever is to be deleted: what
\* ConfirmedDeletions must tell from the confirmation view.
KeySWithoutConfirmation ==
    /\ Running
    /\ state.view \notin {"DeviceSelection", "SyncProgress", "SyncConfirmation"}
    /\ \E selection \in build_selection(state), deletions \in calculate_deletions(state) :
          IF is_empty(selection) /\ is_empty(deletions)
          THEN UNCHANGED <<state, tasks>>
          ELSE IF state.selected_device # None
               THEN start_sync(state, selection, deletions)
               ELSE UNCHANGED <<state, tasks>>
    /\ UNCHANGED <<disk, manifestVars, engineVars>>

\* KeyCode::Char('s')
KeyS ==
    /\ Running
    /\ state.view \notin {"DeviceSelection", "SyncProgress", "SyncConfirmation"}
    /\ \E selection \in build_selection(state), deletions \in calculate_deletions(state) :
          IF is_empty(selection) /\ is_empty(deletions)
          THEN UNCHANGED <<state, tasks>>
          ELSE IF state.selected_device # None
               THEN IF ~is_empty(deletions)
                    THEN /\ state' = [state EXCEPT !.sync_selection = Some(selection),
                                                   !.pending_deletions = Some(deletions),
                                                   !.view = "SyncConfirmation"]
                         /\ UNCHANGED tasks
                    ELSE start_sync(state, selection, deletions)
               ELSE UNCHANGED <<state, tasks>>
    /\ UNCHANGED <<disk, manifestVars, engineVars>>

\* KeyCode::Char('d'): DeviceDetector::scan finds the devices or nothing.
KeyD ==
    /\ Running
    /\ state.view \notin {"DeviceSelection", "SyncProgress"}
    /\ \E found \in {<<>>, Devices} :
          state' = IF found = <<>>
                   THEN [state EXCEPT !.mounted_devices = found]
                   ELSE [state EXCEPT !.mounted_devices = found, !.view = "DeviceSelection"]
    /\ UNCHANGED <<tasks, disk, manifestVars, engineVars>>

\* handle_device_select with the cursor on the mounted device number selected
handle_device_select(st, selected) ==
    LET device == st.mounted_devices[selected]
        st1 == load_and_select_synced_content(st, device)
    IN  [st1 EXCEPT !.selected_device = Some(device), !.view = "Artists"]

\* handle_enter; client.get_artist answers (ok) or fails, which ends the loop
handle_enter(st, ok) ==
    CASE st.view = "Artists" /\ ArtistList(st) # {} ->
            IF ok
            THEN [st EXCEPT !.artist_album_ids = [r \in ArtistIds |-> Some(AlbumIds)],
                            !.albums_loaded = TRUE,
                            !.album_cache = [id \in AlbumIds |-> Some(CatalogAlbum(id))],
                            !.view = "Albums"]
            ELSE [view |-> "Exited"]
      [] st.view = "Albums" /\ AlbumList(st) # {} -> [st EXCEPT !.view = "AlbumTracks"]
      [] st.view = "Playlists" /\ PlaylistList(st) # {} -> [st EXCEPT !.view = "PlaylistTracks"]
      [] OTHER -> st

\* KeyCode::Enter | KeyCode::Right | KeyCode::Char('l')
KeyEnter ==
    /\ Running
    /\ IF state.view = "DeviceSelection"
       THEN /\ \E selected \in DOMAIN state.mounted_devices :
                  state' = handle_device_select(state, selected)
            /\ UNCHANGED tasks
       ELSE IF state.view = "SyncConfirmation"
            THEN IF state.sync_selection # None /\ state.pending_deletions # None
                 THEN start_sync([state EXCEPT !.sync_selection = None, !.pending_deletions = None],
                                 state.sync_selection[1], state.pending_deletions[1])
                 ELSE UNCHANGED <<state, tasks>>
            ELSE IF state.view # "SyncProgress"
                 THEN /\ \E ok \in BOOLEAN : state' = handle_enter(state, ok)
                      /\ UNCHANGED tasks
                 ELSE UNCHANGED <<state, tasks>>
    /\ UNCHANGED <<disk, manifestVars, engineVars>>

\* handle_toggle with the cursor on item idx of the list shown
handle_toggle(st, idx, ok) ==
    CASE st.view = "Artists" /\ idx \in ArtistList(st) ->
            IF st.artist_album_ids[idx] = None
            THEN IF ok
                 THEN toggle_artist_selection(
                        [st EXCEPT !.artist_album_ids[idx] = Some(AlbumIds),
                                   !.album_cache = [id \in AlbumIds |-> Some(CatalogAlbum(id))]],
                        idx)
                 ELSE [view |-> "Exited"]
            ELSE toggle_artist_selection(st, idx)
      [] st.view = "Albums" /\ idx \in AlbumList(st) ->
            IF idx \in st.selected_albums
            THEN [st EXCEPT !.selected_albums = @ \ {idx}]
            ELSE [st EXCEPT !.selected_albums = @ \cup {idx}]
      [] st.view = "Playlists" /\ idx \in PlaylistList(st) ->
            IF idx \in st.selected_playlists
            THEN [st EXCEPT !.selected_playlists = @ \ {idx}]
            ELSE [st EXCEPT !.selected_playlists = @ \cup {idx}]
      [] OTHER -> st

\* KeyCode::Char(' ')
KeySpace ==
    /\ Running
    /\ state.view # "SyncProgress"
    /\ \E idx \in ArtistIds \cup AlbumIds \cup PlaylistIds, ok \in BOOLEAN :
          state' = handle_toggle(state, idx, ok)
    /\ UNCHANGED <<tasks, disk, manifestVars, engineVars>>

handle_select_all(st) ==
    CASE st.view = "Albums" -> [st EXCEPT !.selected_albums = @ \cup AlbumList(st)]
      [] st.view = "Playlists" -> [st EXCEPT !.selected_playlists = @ \cup PlaylistList(st)]
      [] st.view = "Artists" ->
            [st EXCEPT !.selected_albums =
                @ \cup UNION {st.artist_album_ids[r][1] :
                                r \in {x \in ArtistIds : st.artist_album_ids[x] # None}}]
      [] OTHER -> st

\* KeyCode::Char('a')
KeyA ==
    /\ Running
    /\ state.view # "SyncProgress"
    /\ state' = handle_select_all(state)
    /\ UNCHANGED <<tasks, disk, manifestVars, engineVars>>

handle_deselect_all(st) ==
    CASE st.view = "Albums" -> [st EXCEPT !.selected_albums = @ \ AlbumList(st)]
      [] st.view = "Playlists" -> [st EXCEPT !.selected_playlists = @ \ PlaylistList(st)]
      [] st.view = "Artists" -> [st EXCEPT !.selected_albums = {}]
      [] OTHER -> st

\* KeyCode::Char('A')
KeyShiftA ==
    /\ Running
    /\ state.view # "SyncProgress"
    /\ state' = handle_deselect_all(state)
    /\ UNCHANGED <<tasks, disk, manifestVars, engineVars>>

\* handle_tab; the list is fetched when it is still empty, which may fail
handle_tab(st, ok) ==
    CASE st.view \in {"Artists", "Albums", "AlbumTracks"} ->
            IF st.playlists_loaded \/ ok
            THEN [st EXCEPT !.playlists_loaded = TRUE, !.view = "Playlists"]
            ELSE [view |-> "Exited"]
      [] st.view \in {"Playlists", "PlaylistTracks"} ->
            IF st.artists_loaded \/ ok
            THEN [st EXCEPT !.artists_loaded = TRUE, !.view = "Artists"]
            ELSE [view |-> "Exited"]
      [] OTHER -> st

\* KeyCode::Tab
KeyTab ==
    /\ Running
    /\ state.view \notin {"DeviceSelection", "SyncProgress"}
    /\ \E ok \in BOOLEAN : state' = handle_tab(state, ok)
    /\ UNCHANGED <<tasks, disk, manifestVars, engineVars>>

\* handle_sync_progress_event for SyncProgress::Complete
ReceiveComplete ==
    /\ Running
    /\ state.view = "SyncProgress"
    /\ ~state.is_complete
    /\ state' = [state EXCEPT !.is_complete = TRUE]
    /\ UNCHANGED <<tasks, disk, manifestVars, engineVars>>

BrowseNext ==
    \/ KeyQ
    \/ KeyEsc
    \/ KeyBackspace
    \/ KeyS
    \/ KeyD
    \/ KeyEnter
    \/ KeySpace
    \/ KeyA
    \/ KeyShiftA
    \/ KeyTab
    \/ ReceiveComplete

SpecBrowse == BrowseInit /\ [][BrowseNext]_vars

(***************************************************************************)
(* C1: in every state of the browser, with S the selected ids and M the    *)
(* synced ids read from the manifest, the addition set of build_selection  *)
(* holds exactly the ids of S \ M, the deletion set of calculate_deletions *)
(* exactly the ids of M \ S, and no id is in both; for albums and for      *)
(* playlists.  The sets handed to the sync task are these.                 *)
(***************************************************************************)
ReconciliationCorrect ==
    Running =>
        /\ \A selection \in build_selection(state), deletions \in calculate_deletions(state) :
              /\ Ids(selection.albums) = state.selected_albums \ state.synced_album_ids
              /\ Ids(deletions.albums) = state.synced_album_ids \ state.selected_albums
              /\ Ids(selection.albums) \cap Ids(deletions.albums) = {}
              /\ Ids(selection.playlists) = state.selected_playlists \ state.synced_playlist_ids
              /\ Ids(deletions.playlists) = state.synced_playlist_ids \ state.selected_playlists
              /\ Ids(selection.playlists) \cap Ids(deletions.playlists) = {}
        /\ state.view = "SyncConfirmation" =>
              /\ state.sync_selection[1] \in build_selection(state)
              /\ state.pending_deletions[1] \in calculate_deletions(state)

\* A sync was requested with an album to delete, an album to add and a
\* playlist to add.
ReconciliationWitness ==
    /\ state.view = "SyncConfirmation"
    /\ state.sync_selection[1].albums # <<>>
    /\ state.pending_deletions[1].albums # <<>>
    /\ state.sync_selection[1].playlists # <<>>

(***************************************************************************)
(* The sync engine (src/src/sync/engine.rs).  One sync task runs at a      *)
(* time: started by the browser (entry "tui", sync_with_progress) or by    *)
(* the sync command (entry "cli", sync).  Every call of a collaborator     *)
(* either succeeds or fails; MaxFaults bounds the failures of a behaviour. *)
(***************************************************************************)
MaxFaults == 2

MaxRuns == 2

\* The parallel argument of SyncEngine::new.
DefaultParallel == 4

\* A download stage without a slot: what RunEnds must tell from a download
\* parallelism of at least one.
download_parallelism_none(parallel) == 0

\* PipelineConfig as SyncEngine::new fills it in
download_parallelism(parallel) == parallel

\* Half of parallel without the floor of one: what ParallelismConfig must
\* tell from (parallel / 2).max(1).
processing_parallelism_unclamped(parallel) == parallel \div 2

processing_parallelism(parallel) == IF parallel \div 2 >= 1 THEN parallel \div 2 ELSE 1

\* PipelineConfig::default
PipelineConfigDefault == [download_parallelism |-> 4, processing_parallelism |-> 2]

Units == AlbumIds \cup PlaylistIds

UNKNOWN_ARTIST == <<"U", "n", "k", "n", "o", "w", "n", " ", "A", "r", "t", "i", "s", "t">>

DEFAULT_SUFFIX == "mp3"

\* DeletionSelection::default
NoDeletions == [albums |-> <<>>, playlists |-> <<>>]

\* SyncResult::default
NewResult == [albums_synced |-> 0, playlists_synced |-> 0, tracks_downloaded |-> 0]

\* The locals of sync_album* and sync_playlist* before the unit starts.
NoUnit ==
    [cover |-> FALSE, pending |-> {}, downloads |-> <<>>, processed |-> <<>>,
     track_filenames |-> <<>>]

\* The sync task before SyncEngine::new has run.
NewEngine(entry, device, selection, deletions) ==
    [pc |-> "new", entry |-> entry, device |-> device, parallel |-> DefaultParallel,
     selection |-> selection, deletions |-> deletions, i |-> 1, j |-> 1,
     result |-> NewResult, albums_deleted |-> 0, playlists_deleted |-> 0, unit |-> NoUnit]

\* What a run has done, at its start.
NewRun(run, faults, selected) ==
    [run |-> run, faults |-> faults, selected |-> selected,
     ops |-> [catalog |-> 0, download |-> 0, write |-> 0, upsert |-> 0],
     saves |-> 0,
     del_attempts |-> [id \in Units |-> 0],
     failed_deletions |-> {},
     failed_units |-> {},
     write_failed |-> {},
     attempted |-> [id \in Units |-> {}],
     dl_failed |-> [id \in Units |-> {}],
     cover_failed |-> [id \in Units |-> {}],
     embed_failed |-> [id \in Units |-> {}],
     written |-> [id \in Units |-> {}],
     indexed |-> {},
     recorded |-> [id \in Units |-> None]]

\* The browser of a user who has the albums sa and the playlists sp selected
\* and has chosen device, whose manifest lists synced_albums and
\* synced_playlists.
BrowserWith(device, sa, sp, synced_albums, synced_playlists) ==
    [NewBrowserState("Artists") EXCEPT
        !.artists_loaded = TRUE,
        !.albums_loaded = TRUE,
        !.playlists_loaded = TRUE,
        !.mounted_devices = Devices,
        !.album_cache = [id \in AlbumIds |-> Some(CatalogAlbum(id))],
        !.selected_albums = sa,
        !.selected_playlists = sp,
        !.synced_album_ids = synced_albums,
        !.synced_playlist_ids = synced_playlists,
        !.selected_device = Some(device),
        !.active_device = Some(device)]

\* The ids a manifest file lists.
SyncedIn(file) ==
    IF file.kind = "ok"
    THEN [albums |-> Ids(file.manifest.synced_albums),
          playlists |-> Ids(file.manifest.synced_playlists)]
    ELSE [albums |-> {}, playlists |-> {}]

\* The device holds what an earlier sync left; the user has selected albums
\* and playlists and starts the sync from the browser or, with the selection
\* saved by a browser that had no device, from the sync command, there with
\* --parallel 1 or its default.
EngineInit ==
    /\ \E file \in FirstDeviceFiles, sa \in SUBSET AlbumIds, sp \in SUBSET PlaylistIds,
          entry \in {"tui", "cli"}, parallel \in {1, DefaultParallel} :
          /\ entry = "tui" => parallel = DefaultParallel
          /\ disk = [d \in DeviceSet |-> IF d = "d1" THEN file ELSE AbsentFile]
          /\ vol = IF file.kind = "ok" THEN VolumeOf(file.manifest) ELSE EmptyVolume
          /\ LET synced == IF entry = "tui" THEN SyncedIn(file)
                           ELSE [albums |-> {}, playlists |-> {}]
                 st == BrowserWith("d1", sa, sp, synced.albums, synced.playlists)
             IN  \E selection \in build_selection(st), deletions \in calculate_deletions(st) :
                    /\ entry = "tui" => ~(is_empty(selection) /\ is_empty(deletions))
                    /\ entry = "cli" => ~is_empty(selection)
                    /\ eng = [NewEngine(entry, "d1", selection,
                                        IF entry = "tui" THEN deletions ELSE NoDeletions)
                                EXCEPT !.parallel = parallel]
          /\ hist = NewRun(1, 0, [albums |-> sa, playlists |-> sp])
    /\ events = <<>>
    /\ ChannelIdle
    /\ ManifestIdle
    /\ state = [view |-> "Exited"]
    /\ tasks = <<>>

idleVars == <<lastUpsert, prevUpsert, state, tasks, channelVars>>

\* progress_tx.send: only sync_with_progress has a channel.
Send(ev) == events' = IF eng.entry = "tui" THEN Append(events, ev) ELSE events

\* A collaborator call may fail while the behaviour has failures left.
CanFail(n) == hist.faults + n <= MaxFaults

\* The loops of sync and sync_with_progress: the position at playlist k, or
\* at the save once the playlists are done.
PlaylistsFrom(e, k) ==
    IF k <= Len(e.selection.playlists)
    THEN [e EXCEPT !.pc = "playlists", !.i = k, !.j = 1, !.unit = NoUnit]
    ELSE [e EXCEPT !.pc = "save", !.i = 1, !.j = 1, !.unit = NoUnit]

\* The position at album k, or at the playlists once the albums are done.
AlbumsFrom(e, k) ==
    IF k <= Len(e.selection.albums)
    THEN [e EXCEPT !.pc = "albums", !.i = k, !.j = 1, !.unit = NoUnit]
    ELSE PlaylistsFrom(e, 1)

AlbumPcs == {"albums", "a_download", "a_write", "ca_write"}

PlaylistPcs == {"playlists", "p_download", "p_write", "cp_track"}

\* Loops that leave out the unit after the one just done: what UnitOrder
\* must tell from the two for loops over the selection.
NextUnitSkippingOne(e) ==
    IF e.pc \in AlbumPcs THEN AlbumsFrom(e, e.i + 2) ELSE PlaylistsFrom(e, e.i + 2)

\* The position after the unit the task is in.
NextUnit(e) == IF e.pc \in AlbumPcs THEN AlbumsFrom(e, e.i + 1) ELSE PlaylistsFrom(e, e.i + 1)

\* The loops of delete_deselected: the position at playlist entry k, or at
\* the Started event once the entries are done.
PlaylistDeletionsFrom(e, k) ==
    IF k <= Len(e.deletions.playlists)
    THEN [e EXCEPT !.pc = "del_playlists", !.i = k]
    ELSE [e EXCEPT !.pc = "started", !.i = 1]

AlbumDeletionsFrom(e, k) ==
    IF k <= Len(e.deletions.albums)
    THEN [e EXCEPT !.pc = "del_albums", !.i = k]
    ELSE PlaylistDeletionsFrom(e, 1)

\* A SyncEngine::new that starts a new manifest when the file cannot be
\* parsed: what FatalAbortsBeforeWork must tell from the ? after load.
EngineNewTreatingCorruptAsEmpty ==
    /\ eng.pc = "new"
    /\ LET r == load(disk[eng.device])
       IN  /\ eng' = [eng EXCEPT !.pc = "init"]
           /\ manifest' = IF r.kind = "some" THEN r.manifest ELSE NewManifest
           /\ UNCHANGED events
    /\ UNCHANGED <<vol, disk, hist, idleVars>>

\* SyncEngine::new: loads the manifest of the device or starts a new one.
EngineNew ==
    /\ eng.pc = "new"
    /\ LET r == load(disk[eng.device])
       IN  IF r.kind = "err"
           THEN /\ eng' = [eng EXCEPT !.pc = "fatal"]
                /\ Send([type |-> "Error", message |-> <<"Failed to create sync engine">>])
                /\ UNCHANGED manifest
           ELSE /\ eng' = [eng EXCEPT !.pc = "init"]
                /\ manifest' = IF r.kind = "some" THEN r.manifest ELSE NewManifest
                /\ UNCHANGED events
    /\ UNCHANGED <<vol, disk, hist, idleVars>>

\* storage.init() at the start of sync and sync_with_progress
StorageInit ==
    /\ eng.pc = "init"
    /\ \E outcome \in {"ok", "artists_failed", "playlists_failed"} :
          IF outcome = "ok"
          THEN /\ vol' = init(vol)
               /\ eng' = IF eng.entry = "tui" THEN [eng EXCEPT !.pc = "delete"]
                         ELSE AlbumsFrom(eng, 1)
               /\ UNCHANGED <<events, hist>>
          ELSE /\ CanFail(1)
               /\ hist' = [hist EXCEPT !.faults = @ + 1]
               /\ eng' = [eng EXCEPT !.pc = "fatal"]
               /\ Send([type |-> "Error", message |-> <<"Sync failed">>])
               /\ vol' = IF outcome = "artists_failed" THEN vol
                         ELSE [vol EXCEPT !.dirs = @ \cup {artists_dir}]
    /\ UNCHANGED <<manifest, disk, idleVars>>

\* A sync_with_progress that sends Started before it calls
\* delete_deselected: what DeletionsFirst must tell from the order of the
\* code.
DeleteStartAfterStarted ==
    /\ eng.pc = "delete"
    /\ IF is_empty(eng.deletions)
       THEN /\ eng' = [eng EXCEPT !.pc = "started"]
            /\ UNCHANGED events
       ELSE /\ eng' = AlbumDeletionsFrom(eng, 1)
            /\ events' = events \o
                  <<[type |-> "Started", total_albums |-> Len(eng.selection.albums),
                     total_playlists |-> Len(eng.selection.playlists)],
                    [type |-> "DeletionStarted",
                     albums_to_delete |-> Len(eng.deletions.albums),
                     playlists_to_delete |-> Len(eng.deletions.playlists)]>>
    /\ UNCHANGED <<manifest, vol, disk, hist, idleVars>>

\* delete_deselected up to its first loop
DeleteStart ==
    /\ eng.pc = "delete"
    /\ IF is_empty(eng.deletions)
       THEN /\ eng' = [eng EXCEPT !.pc = "started"]
            /\ UNCHANGED events
       ELSE /\ eng' = AlbumDeletionsFrom(eng, 1)
            /\ Send([type |-> "DeletionStarted",
                     albums_to_delete |-> Len(eng.deletions.albums),
                     playlists_to_delete |-> Len(eng.deletions.playlists)])
    /\ UNCHANGED <<manifest, vol, disk, hist, idleVars>>

\* A delete_deselected whose album loop stops at the first entry it cannot
\* remove: what DeletionIsolation must tell from the loop of the code.
DeleteAlbumStoppingOnFailure ==
    /\ eng.pc = "del_albums"
    /\ LET entry == eng.deletions.albums[eng.i]
       IN  \E ok \in BOOLEAN :
              IF ok
              THEN /\ vol' = delete_album(vol, entry.artist, entry.album)
                   /\ manifest' = remove_album(manifest, entry.id)
                   /\ eng' = AlbumDeletionsFrom([eng EXCEPT !.albums_deleted = @ + 1], eng.i + 1)
                   /\ Send([type |-> "AlbumDeleted", artist |-> entry.artist, album |-> entry.album])
                   /\ hist' = [hist EXCEPT !.del_attempts[entry.id] = @ + 1]
              ELSE /\ CanFail(1)
                   /\ eng' = [eng EXCEPT !.pc = "started", !.i = 1]
                   /\ Send([type |-> "AlbumDeleteFailed", artist |-> entry.artist,
                            album |-> entry.album])
                   /\ hist' = [hist EXCEPT !.del_attempts[entry.id] = @ + 1,
                                           !.failed_deletions = @ \cup {entry.id},
                                           !.faults = @ + 1]
                   /\ UNCHANGED <<vol, manifest>>
    /\ UNCHANGED <<disk, idleVars>>

\* One iteration of the album loop of delete_deselected
DeleteAlbum ==
    /\ eng.pc = "del_albums"
    /\ LET entry == eng.deletions.albums[eng.i]
       IN  \E ok \in BOOLEAN :
              IF ok
              THEN /\ vol' = delete_album(vol, entry.artist, entry.album)
                   /\ manifest' = remove_album(manifest, entry.id)
                   /\ eng' = AlbumDeletionsFrom([eng EXCEPT !.albums_deleted = @ + 1], eng.i + 1)
                   /\ Send([type |-> "AlbumDeleted", artist |-> entry.artist, album |-> entry.album])
                   /\ hist' = [hist EXCEPT !.del_attempts[entry.id] = @ + 1]
              ELSE /\ CanFail(1)
                   /\ eng' = AlbumDeletionsFrom(eng, eng.i + 1)
                   /\ Send([type |-> "AlbumDeleteFailed", artist |-> entry.artist,
                            album |-> entry.album])
                   /\ hist' = [hist EXCEPT !.del_attempts[entry.id] = @ + 1,
                                           !.failed_deletions = @ \cup {entry.id},
                                           !.faults = @ + 1]
                   /\ UNCHANGED <<vol, manifest>>
    /\ UNCHANGED <<disk, idleVars>>

\* One iteration of the playlist loop of delete_deselected
DeletePlaylist ==
    /\ eng.pc = "del_playlists"
    /\ LET entry == eng.deletions.playlists[eng.i]
       IN  \E ok \in BOOLEAN :
              IF ok
              THEN /\ vol' = delete_playlist(vol, entry.name)
                   /\ manifest' = remove_playlist(manifest, entry.id)
                   /\ eng' = PlaylistDeletionsFrom([eng EXCEPT !.playlists_deleted = @ + 1],
                                                   eng.i + 1)
                   /\ Send([type |-> "PlaylistDeleted", name |-> entry.name])
                   /\ hist' = [hist EXCEPT !.del_attempts[entry.id] = @ + 1]
              ELSE /\ CanFail(1)
                   /\ eng' = PlaylistDeletionsFrom(eng, eng.i + 1)
                   /\ Send([type |-> "PlaylistDeleteFailed", name |-> entry.name])
                   /\ hist' = [hist EXCEPT !.del_attempts[entry.id] = @ + 1,
                                           !.failed_deletions = @ \cup {entry.id},
                                           !.faults = @ + 1]
                   /\ UNCHANGED <<vol, manifest>>
    /\ UNCHANGED <<disk, idleVars>>

\* sync_with_progress between delete_deselected and the album loop
SendStarted ==
    /\ eng.pc = "started"
    /\ eng' = AlbumsFrom(eng, 1)
    /\ Send([type |-> "Started", total_albums |-> Len(eng.selection.albums),
             total_playlists |-> Len(eng.selection.playlists)])
    /\ UNCHANGED <<manifest, vol, disk, hist, idleVars>>

\* A download stage that starts every download at once: what
\* DownloadsBounded must tell from buffer_unordered(parallelism).
InFlightUnbounded(pending, total, parallelism) == pending

\* The downloads buffer_unordered(parallelism) has in flight: the stream
\* starts the tasks in order, at most parallelism of them unfinished.
InFlight(pending, total, parallelism) ==
    {t \in pending : t <= (total - Cardinality(pending)) + parallelism}

\* A unit failure that, on the last unit, ends the run without the save:
\* what SavedOnce must tell from the loops, which always fall through to
\* manifest.save.
UnitFailedSkippingSave(message) ==
    /\ eng' = LET e == NextUnit(eng) IN IF e.pc = "save" THEN [e EXCEPT !.pc = "done"] ELSE e
    /\ Send([type |-> "Error", message |-> message])

\* The unit returned Err: sync logs it, sync_with_progress sends an Error.
UnitFailed(message) ==
    /\ eng' = NextUnit(eng)
    /\ Send([type |-> "Error", message |-> message])

\* An album unit that asks the catalog for the album before it looks in
\* the manifest: what ManifestHit must tell from the early return.
AlbumBeginFetchingFirst ==
    /\ eng.pc = "albums"
    /\ LET album == eng.selection.albums[eng.i]
       IN  IF is_album_synced(manifest, album.id)
           THEN /\ eng' = NextUnit(IF eng.entry = "tui" THEN eng
                                   ELSE [eng EXCEPT !.result.albums_synced = @ + 1])
                /\ Send([type |-> "AlbumSkipped", artist |-> album.artist, album |-> album.name])
                /\ hist' = [hist EXCEPT !.ops.catalog = @ + 1]
           ELSE \E cover_ok, get_ok \in BOOLEAN :
                  LET failures == (IF album.cover_art /\ ~cover_ok THEN 1 ELSE 0)
                                    + (IF get_ok THEN 0 ELSE 1)
                      songs == SongsOf(album.id)
                  IN  /\ cover_ok => album.cover_art
                      /\ CanFail(failures)
                      /\ hist' = [hist EXCEPT
                            !.faults = @ + failures,
                            !.ops.catalog = @ + 1 + (IF album.cover_art THEN 1 ELSE 0),
                            !.failed_units = IF get_ok THEN @ ELSE @ \cup {album.id}]
                      /\ IF get_ok
                         THEN /\ eng' = [eng EXCEPT !.pc = "a_download",
                                                    !.unit = [NoUnit EXCEPT !.cover = cover_ok,
                                                                            !.pending = DOMAIN songs]]
                              /\ Send([type |-> "AlbumStarted", artist |-> album.artist,
                                       album |-> album.name, track_count |-> Len(songs)])
                         ELSE UnitFailed(<<"Album", album.artist, album.name>>)
    /\ UNCHANGED <<manifest, vol, disk, idleVars>>

\* sync_album and sync_album_with_progress up to the downloads, and what the
\* caller does when the unit returns at once
AlbumBegin ==
    /\ eng.pc = "albums"
    /\ LET album == eng.selection.albums[eng.i]
       IN  IF is_album_synced(manifest, album.id)
           THEN /\ eng' = NextUnit(IF eng.entry = "tui" THEN eng
                                   ELSE [eng EXCEPT !.result.albums_synced = @ + 1])
                /\ Send([type |-> "AlbumSkipped", artist |-> album.artist, album |-> album.name])
                /\ UNCHANGED hist
           ELSE \E cover_ok, get_ok \in BOOLEAN :
                  LET failures == (IF album.cover_art /\ ~cover_ok THEN 1 ELSE 0)
                                    + (IF get_ok THEN 0 ELSE 1)
                      songs == SongsOf(album.id)
                  IN  /\ cover_ok => album.cover_art
                      /\ CanFail(failures)
                      /\ hist' = [hist EXCEPT
                            !.faults = @ + failures,
                            !.ops.catalog = @ + 1 + (IF album.cover_art THEN 1 ELSE 0),
                            !.failed_units = IF get_ok THEN @ ELSE @ \cup {album.id}]
                      /\ IF get_ok
                         THEN /\ eng' = [eng EXCEPT !.pc = "a_download",
                                                    !.unit = [NoUnit EXCEPT !.cover = cover_ok,
                                                                            !.pending = DOMAIN songs]]
                              /\ Send([type |-> "AlbumStarted", artist |-> album.artist,
                                       album |-> album.name, track_count |-> Len(songs)])
                         ELSE UnitFailed(<<"Album", album.artist, album.name>>)
    /\ UNCHANGED <<manifest, vol, disk, idleVars>>

\* A download stage that drops the downloads still pending when one fails:
\* what AlbumPartialFailureIsolation must tell from buffer_unordered.
AlbumDownloadCancelling ==
    /\ eng.pc = "a_download"
    /\ LET album == eng.selection.albums[eng.i]
           songs == SongsOf(album.id)
       IN  \E t \in InFlight(eng.unit.pending, Len(songs), download_parallelism(eng.parallel)),
              ok \in BOOLEAN :
              /\ ~ok => CanFail(1)
              /\ eng' = [eng EXCEPT !.unit.pending = IF ok THEN @ \ {t} ELSE {},
                                    !.unit.downloads = IF ok THEN Append(@, songs[t]) ELSE @]
              /\ hist' = [hist EXCEPT
                    !.faults = IF ok THEN @ ELSE @ + 1,
                    !.ops.download = @ + 1,
                    !.attempted[album.id] = @ \cup {t},
                    !.dl_failed[album.id] = IF ok THEN @ ELSE @ \cup {t}]
    /\ UNCHANGED <<manifest, vol, disk, events, idleVars>>

\* One download of the album completes (client.download of one song).
AlbumDownload ==
    /\ eng.pc = "a_download"
    /\ LET album == eng.selection.albums[eng.i]
           songs == SongsOf(album.id)
       IN  \E t \in InFlight(eng.unit.pending, Len(songs), download_parallelism(eng.parallel)),
              ok \in BOOLEAN :
              /\ ~ok => CanFail(1)
              /\ eng' = [eng EXCEPT !.unit.pending = @ \ {t},
                                    !.unit.downloads = IF ok THEN Append(@, songs[t]) ELSE @]
              /\ hist' = [hist EXCEPT
                    !.faults = IF ok THEN @ ELSE @ + 1,
                    !.ops.download = @ + 1,
                    !.attempted[album.id] = @ \cup {t},
                    !.dl_failed[album.id] = IF ok THEN @ ELSE @ \cup {t}]
    /\ UNCHANGED <<manifest, vol, disk, events, idleVars>>

\* process_tracks_parallel: every track comes back, in the order given, with
\* the cover embedded or, when there is no cover or embedding fails, as
\* downloaded.
process_tracks_parallel(tracks, embedded) ==
    [k \in DOMAIN tracks |->
        [song |-> tracks[k].song,
         final_audio_data |-> AudioData(tracks[k].song, embedded[k]),
         artist |-> tracks[k].artist,
         album |-> tracks[k].album,
         track_number |-> tracks[k].track_number]]

\* A unit that records the album once its tracks are downloaded, before
\* they are written: what UnitFailureFrame must tell from the code, which
\* calls add_album after the write loop.
AlbumProcessRecordingFirst ==
    /\ eng.pc = "a_download"
    /\ eng.unit.pending = {}
    /\ LET album == eng.selection.albums[eng.i]
           downloads == eng.unit.downloads
           downloaded_tracks ==
               [k \in DOMAIN downloads |->
                   [song |-> downloads[k], artist |-> album.artist, album |-> album.name,
                    track_number |-> unwrap_or(downloads[k].track, 1)]]
       IN  /\ manifest' = add_album(manifest, [id |-> album.id, artist |-> album.artist,
                                               album |-> album.name,
                                               track_count |-> Len(downloads)])
           /\ IF eng.entry = "tui"
              THEN \E embedded \in [DOMAIN downloads -> BOOLEAN] :
                     LET failures == IF eng.unit.cover
                                     THEN Cardinality({k \in DOMAIN downloads : ~embedded[k]})
                                     ELSE 0
                     IN  /\ \A k \in DOMAIN downloads : embedded[k] => eng.unit.cover
                         /\ CanFail(failures)
                         /\ hist' = [hist EXCEPT
                               !.faults = @ + failures,
                               !.embed_failed[album.id] =
                                   IF eng.unit.cover
                                   THEN {downloads[k].id[2] : k \in {n \in DOMAIN downloads :
                                                                        ~embedded[n]}}
                                   ELSE {}]
                         /\ eng' = [eng EXCEPT
                               !.pc = "a_write", !.j = 1,
                               !.unit.processed = process_tracks_parallel(downloaded_tracks, embedded)]
                         /\ Send([type |-> "TrackCompleted", track_num |-> Len(downloads),
                                  total_tracks |-> Len(SongsOf(album.id))])
              ELSE /\ eng' = [eng EXCEPT !.pc = "ca_write", !.j = 1]
                   /\ UNCHANGED <<hist, events>>
    /\ UNCHANGED <<vol, disk, idleVars>>

\* The downloads of the album are done: sync_album_with_progress reports
\* them and processes the tracks; in sync_album download_batch returns.
AlbumProcess ==
    /\ eng.pc = "a_download"
    /\ eng.unit.pending = {}
    /\ LET album == eng.selection.albums[eng.i]
           downloads == eng.unit.downloads
           downloaded_tracks ==
               [k \in DOMAIN downloads |->
                   [song |-> downloads[k], artist |-> album.artist, album |-> album.name,
                    track_number |-> unwrap_or(downloads[k].track, 1)]]
       IN  IF eng.entry = "tui"
           THEN \E embedded \in [DOMAIN downloads -> BOOLEAN] :
                  LET failures == IF eng.unit.cover
                                  THEN Cardinality({k \in DOMAIN downloads : ~embedded[k]})
                                  ELSE 0
                  IN  /\ \A k \in DOMAIN downloads : embedded[k] => eng.unit.cover
                      /\ CanFail(failures)
                      /\ hist' = [hist EXCEPT
                            !.faults = @ + failures,
                            !.embed_failed[album.id] =
                                IF eng.unit.cover
                                THEN {downloads[k].id[2] : k \in {n \in DOMAIN downloads :
                                                                     ~embedded[n]}}
                                ELSE {}]
                      /\ eng' = [eng EXCEPT
                            !.pc = "a_write", !.j = 1,
                            !.unit.processed = process_tracks_parallel(downloaded_tracks, embedded)]
                      /\ Send([type |-> "TrackCompleted", track_num |-> Len(downloads),
                               total_tracks |-> Len(SongsOf(album.id))])
           ELSE /\ eng' = [eng EXCEPT !.pc = "ca_write", !.j = 1]
                /\ UNCHANGED <<hist, events>>
    /\ UNCHANGED <<manifest, vol, disk, idleVars>>

\* write_album_track: the folder cannot be made, the file cannot be written,
\* or the file is written.
WriteOutcomes == {"ok", "mkdir_failed", "write_failed"}

\* A write loop that goes on to the next track when a write fails: what
\* UpsertAfterWrites must tell from the loop of the code, which returns.
AlbumWriteIgnoringErrors ==
    /\ eng.pc = "a_write"
    /\ eng.j <= Len(eng.unit.processed)
    /\ LET album == eng.selection.albums[eng.i]
           track == eng.unit.processed[eng.j]
           extension == unwrap_or(track.song.suffix, DEFAULT_SUFFIX)
       IN  \E outcome \in WriteOutcomes :
              IF outcome = "ok"
              THEN /\ vol' = write_album_track(vol, track.artist, track.album, track.track_number,
                                               track.song.title, extension, track.final_audio_data)
                   /\ eng' = [eng EXCEPT !.j = @ + 1]
                   /\ hist' = [hist EXCEPT !.ops.write = @ + 1,
                                           !.written[album.id] = @ \cup {track.song.id[2]}]
                   /\ UNCHANGED events
              ELSE /\ CanFail(1)
                   /\ vol' = IF outcome = "mkdir_failed" THEN vol
                             ELSE create_album_folder(vol, track.artist, track.album)
                   /\ hist' = [hist EXCEPT !.faults = @ + 1,
                                           !.write_failed = @ \cup {album.id}]
                   /\ eng' = [eng EXCEPT !.j = @ + 1]
                   /\ UNCHANGED events
    /\ UNCHANGED <<manifest, disk, idleVars>>

\* A write loop whose failure ends the whole run instead of the unit: what
\* UnitFailureIsolation must tell from the match of sync_with_progress.
AlbumWriteAborting ==
    /\ eng.pc = "a_write"
    /\ eng.j <= Len(eng.unit.processed)
    /\ LET album == eng.selection.albums[eng.i]
           track == eng.unit.processed[eng.j]
           extension == unwrap_or(track.song.suffix, DEFAULT_SUFFIX)
       IN  \E outcome \in WriteOutcomes :
              IF outcome = "ok"
              THEN /\ vol' = write_album_track(vol, track.artist, track.album, track.track_number,
                                               track.song.title, extension, track.final_audio_data)
                   /\ eng' = [eng EXCEPT !.j = @ + 1]
                   /\ hist' = [hist EXCEPT !.ops.write = @ + 1,
                                           !.written[album.id] = @ \cup {track.song.id[2]}]
                   /\ UNCHANGED events
              ELSE /\ CanFail(1)
                   /\ vol' = IF outcome = "mkdir_failed" THEN vol
                             ELSE create_album_folder(vol, track.artist, track.album)
                   /\ hist' = [hist EXCEPT !.faults = @ + 1,
                                           !.write_failed = @ \cup {album.id},
                                           !.failed_units = @ \cup {album.id}]
                   /\ eng' = [eng EXCEPT !.pc = "fatal"]
                   /\ Send([type |-> "Error", message |-> <<"Sync failed">>])
    /\ UNCHANGED <<manifest, disk, idleVars>>

\* One iteration of the write loop of sync_album_with_progress
AlbumWrite ==
    /\ eng.pc = "a_write"
    /\ eng.j <= Len(eng.unit.processed)
    /\ LET album == eng.selection.albums[eng.i]
           track == eng.unit.processed[eng.j]
           extension == unwrap_or(track.song.suffix, DEFAULT_SUFFIX)
       IN  \E outcome \in WriteOutcomes :
              IF outcome = "ok"
              THEN /\ vol' = write_album_track(vol, track.artist, track.album, track.track_number,
                                               track.song.title, extension, track.final_audio_data)
                   /\ eng' = [eng EXCEPT !.j = @ + 1]
                   /\ hist' = [hist EXCEPT !.ops.write = @ + 1,
                                           !.written[album.id] = @ \cup {track.song.id[2]}]
                   /\ UNCHANGED events
              ELSE /\ CanFail(1)
                   /\ vol' = IF outcome = "mkdir_failed" THEN vol
                             ELSE create_album_folder(vol, track.artist, track.album)
                   /\ hist' = [hist EXCEPT !.faults = @ + 1,
                                           !.write_failed = @ \cup {album.id},
                                           !.failed_units = @ \cup {album.id}]
                   /\ UnitFailed(<<"Album", album.artist, album.name>>)
    /\ UNCHANGED <<manifest, disk, idleVars>>

\* One iteration of the write loop of sync_album: embeds, then writes.
CliAlbumWrite ==
    /\ eng.pc = "ca_write"
    /\ eng.j <= Len(eng.unit.downloads)
    /\ LET album == eng.selection.albums[eng.i]
           song == eng.unit.downloads[eng.j]
           track_num == unwrap_or(song.track, 1)
           extension == unwrap_or(song.suffix, DEFAULT_SUFFIX)
       IN  \E outcome \in WriteOutcomes, embedded \in BOOLEAN :
              LET failures == (IF eng.unit.cover /\ ~embedded THEN 1 ELSE 0)
                                + (IF outcome = "ok" THEN 0 ELSE 1)
              IN  /\ embedded => eng.unit.cover
                  /\ CanFail(failures)
                  /\ IF outcome = "ok"
                     THEN /\ vol' = write_album_track(vol, album.artist, album.name, track_num,
                                                      song.title, extension,
                                                      AudioData(song, embedded))
                          /\ eng' = [eng EXCEPT !.j = @ + 1]
                          /\ hist' = [hist EXCEPT !.faults = @ + failures,
                                                  !.ops.write = @ + 1,
                                                  !.written[album.id] = @ \cup {song.id[2]}]
                          /\ UNCHANGED events
                     ELSE /\ vol' = IF outcome = "mkdir_failed" THEN vol
                                    ELSE create_album_folder(vol, album.artist, album.name)
                          /\ hist' = [hist EXCEPT !.faults = @ + failures,
                                                  !.write_failed = @ \cup {album.id},
                                                  !.failed_units = @ \cup {album.id}]
                          /\ UnitFailed(<<"Album", album.artist, album.name>>)
    /\ UNCHANGED <<manifest, disk, idleVars>>

\* The tracks of the album are written: the cover file, the manifest record,
\* and what the caller does with Ok((tracks, bytes)).
AlbumFinish ==
    /\ \/ eng.pc = "a_write" /\ eng.j > Len(eng.unit.processed)
       \/ eng.pc = "ca_write" /\ eng.j > Len(eng.unit.downloads)
    /\ LET album == eng.selection.albums[eng.i]
           tracks == IF eng.entry = "tui" THEN Len(eng.unit.processed)
                     ELSE Len(eng.unit.downloads)
           record == [id |-> album.id, artist |-> album.artist, album |-> album.name,
                      track_count |-> tracks]
       IN  /\ \E outcome \in (IF eng.unit.cover THEN WriteOutcomes ELSE {"no_cover"}) :
                 /\ LET failures == IF outcome \in {"mkdir_failed", "write_failed"} THEN 1 ELSE 0
                    IN  /\ CanFail(failures)
                        /\ hist' = [hist EXCEPT !.faults = @ + failures,
                                                !.ops.upsert = @ + 1,
                                                !.recorded[album.id] = Some(tracks)]
                 /\ vol' = CASE outcome = "ok" ->
                                    write_cover_art(vol, album.artist, album.name)
                             [] outcome = "write_failed" ->
                                    create_album_folder(vol, album.artist, album.name)
                             [] OTHER -> vol
           /\ manifest' = add_album(manifest, record)
           /\ IF eng.entry = "tui"
              THEN IF tracks > 0
                   THEN /\ eng' = NextUnit([eng EXCEPT !.result.albums_synced = @ + 1,
                                                       !.result.tracks_downloaded = @ + tracks])
                        /\ Send([type |-> "AlbumCompleted", artist |-> album.artist,
                                 album |-> album.name])
                   ELSE /\ eng' = NextUnit(eng)
                        /\ Send([type |-> "AlbumSkipped", artist |-> album.artist,
                                 album |-> album.name])
              ELSE /\ eng' = NextUnit([eng EXCEPT !.result.albums_synced = @ + 1,
                                                  !.result.tracks_downloaded = @ + tracks])
                   /\ UNCHANGED events
    /\ UNCHANGED <<disk, idleVars>>

\* sync_playlist and sync_playlist_with_progress up to the downloads, and
\* what the caller does when the unit returns at once
PlaylistBegin ==
    /\ eng.pc = "playlists"
    /\ LET playlist == eng.selection.playlists[eng.i]
       IN  IF is_playlist_synced(manifest, playlist.id)
           THEN /\ eng' = NextUnit(IF eng.entry = "tui" THEN eng
                                   ELSE [eng EXCEPT !.result.playlists_synced = @ + 1])
                /\ Send([type |-> "PlaylistSkipped", name |-> playlist.name])
                /\ UNCHANGED hist
           ELSE \E get_ok \in BOOLEAN :
                  LET songs == SongsOf(playlist.id)
                  IN  IF get_ok
                      THEN /\ eng' = IF eng.entry = "tui"
                                     THEN [eng EXCEPT !.pc = "p_download",
                                                      !.unit = [NoUnit EXCEPT !.pending = DOMAIN songs]]
                                     ELSE [eng EXCEPT !.pc = "cp_track", !.j = 1, !.unit = NoUnit]
                           /\ Send([type |-> "PlaylistStarted", name |-> playlist.name,
                                    track_count |-> Len(songs)])
                           /\ hist' = [hist EXCEPT !.ops.catalog = @ + 1]
                      ELSE /\ CanFail(1)
                           /\ hist' = [hist EXCEPT !.faults = @ + 1,
                                                   !.ops.catalog = @ + 1,
                                                   !.failed_units = @ \cup {playlist.id}]
                           /\ UnitFailed(<<"Playlist", playlist.name>>)
    /\ UNCHANGED <<manifest, vol, disk, idleVars>>

\* One download of sync_playlist_with_progress completes: the track and,
\* when the song names a cover, its cover.
PlaylistDownload ==
    /\ eng.pc = "p_download"
    /\ LET playlist == eng.selection.playlists[eng.i]
           songs == SongsOf(playlist.id)
       IN  \E t \in InFlight(eng.unit.pending, Len(songs), download_parallelism(eng.parallel)),
              ok \in BOOLEAN, cover_ok \in BOOLEAN :
              LET song == songs[t]
                  cover_failed == ok /\ song.cover_art # None /\ ~cover_ok
                  failures == (IF ok THEN 0 ELSE 1) + (IF cover_failed THEN 1 ELSE 0)
              IN  /\ cover_ok => ok /\ song.cover_art # None
                  /\ CanFail(failures)
                  /\ eng' = [eng EXCEPT
                        !.unit.pending = @ \ {t},
                        !.unit.downloads =
                            IF ok THEN Append(@, [song |-> song, cover_data |-> cover_ok,
                                                  cover_id |-> song.cover_art])
                            ELSE @]
                  /\ hist' = [hist EXCEPT
                        !.faults = @ + failures,
                        !.ops.download = @ + 1,
                        !.attempted[playlist.id] = @ \cup {t},
                        !.dl_failed[playlist.id] = IF ok THEN @ ELSE @ \cup {t},
                        !.cover_failed[playlist.id] = IF cover_failed THEN @ \cup {t} ELSE @]
    /\ UNCHANGED <<manifest, vol, disk, events, idleVars>>

\* The downloads of the playlist are done: sync_playlist_with_progress
\* reports them, processes each cover once into cover_cache and embeds.
PlaylistProcess ==
    /\ eng.pc = "p_download"
    /\ eng.unit.pending = {}
    /\ LET playlist == eng.selection.playlists[eng.i]
           downloads == eng.unit.downloads
           with_data == {downloads[k].cover_id[1] : k \in {n \in DOMAIN downloads :
                                                             downloads[n].cover_data}}
           Cached(cache, k) == downloads[k].cover_id # None /\ downloads[k].cover_id[1] \in cache
       IN  \E cover_cache \in SUBSET with_data, embedded \in [DOMAIN downloads -> BOOLEAN] :
              LET failures == Cardinality(with_data \ cover_cache)
                                + Cardinality({k \in DOMAIN downloads :
                                                  Cached(cover_cache, k) /\ ~embedded[k]})
              IN  /\ \A k \in DOMAIN downloads : embedded[k] => Cached(cover_cache, k)
                  /\ CanFail(failures)
                  /\ hist' = [hist EXCEPT
                        !.faults = @ + failures,
                        !.embed_failed[playlist.id] =
                            {downloads[k].song.id[2] : k \in {n \in DOMAIN downloads :
                                                                 Cached(cover_cache, n)
                                                                     /\ ~embedded[n]}}]
                  /\ eng' = [eng EXCEPT
                        !.pc = "p_write", !.j = 1,
                        !.unit.processed =
                            [k \in DOMAIN downloads |->
                                [song |-> downloads[k].song,
                                 artist |-> unwrap_or(downloads[k].song.artist, UNKNOWN_ARTIST),
                                 extension |-> unwrap_or(downloads[k].song.suffix, DEFAULT_SUFFIX),
                                 final_data |-> AudioData(downloads[k].song, embedded[k])]]]
                  /\ Send([type |-> "TrackCompleted", track_num |-> Len(downloads),
                           total_tracks |-> Len(SongsOf(playlist.id))])
    /\ UNCHANGED <<manifest, vol, disk, idleVars>>

\* One iteration of the write loop of sync_playlist_with_progress
PlaylistWrite ==
    /\ eng.pc = "p_write"
    /\ eng.j <= Len(eng.unit.processed)
    /\ LET playlist == eng.selection.playlists[eng.i]
           track == eng.unit.processed[eng.j]
       IN  \E outcome \in WriteOutcomes :
              IF outcome = "ok"
              THEN /\ vol' = write_playlist_track(vol, playlist.name, track.artist,
                                                  track.song.title, track.extension,
                                                  track.final_data)
                   /\ eng' = [eng EXCEPT
                         !.j = @ + 1,
                         !.unit.track_filenames =
                             Append(@, PlaylistTrackFile(track.artist, track.song.title,
                                                         track.extension))]
                   /\ hist' = [hist EXCEPT !.ops.write = @ + 1,
                                           !.written[playlist.id] = @ \cup {track.song.id[2]}]
                   /\ UNCHANGED events
              ELSE /\ CanFail(1)
                   /\ vol' = IF outcome = "mkdir_failed" THEN vol
                             ELSE create_playlist_folder(vol, playlist.name)
                   /\ hist' = [hist EXCEPT !.faults = @ + 1,
                                           !.write_failed = @ \cup {playlist.id},
                                           !.failed_units = @ \cup {playlist.id}]
                   /\ UnitFailed(<<"Playlist", playlist.name>>)
    /\ UNCHANGED <<manifest, disk, idleVars>>

\* What one iteration of the loop of sync_playlist may do: download_one
\* fails, or the track is downloaded and write_playlist_track ends one of
\* its three ways.
CliTrackOutcomes == {"download_failed"} \cup WriteOutcomes

\* One iteration of the loop of sync_playlist: downloads the track and its
\* cover, embeds and writes.
CliPlaylistTrack ==
    /\ eng.pc = "cp_track"
    /\ eng.j <= Len(SongsOf(eng.selection.playlists[eng.i].id))
    /\ LET playlist == eng.selection.playlists[eng.i]
           song == SongsOf(playlist.id)[eng.j]
           t == eng.j
           extension == unwrap_or(song.suffix, DEFAULT_SUFFIX)
           artist == unwrap_or(song.artist, UNKNOWN_ARTIST)
       IN  \E outcome \in CliTrackOutcomes, cover_ok \in BOOLEAN, embedded \in BOOLEAN :
              LET downloaded == outcome # "download_failed"
                  cover_failed == downloaded /\ song.cover_art # None /\ ~cover_ok
                  failures == (IF outcome = "ok" THEN 0 ELSE 1)
                                + (IF cover_failed THEN 1 ELSE 0)
                                + (IF cover_ok /\ ~embedded THEN 1 ELSE 0)
              IN  /\ cover_ok => downloaded /\ song.cover_art # None
                  /\ embedded => cover_ok
                  /\ CanFail(failures)
                  /\ IF outcome = "ok"
                     THEN /\ vol' = write_playlist_track(vol, playlist.name, artist, song.title,
                                                         extension, AudioData(song, embedded))
                          /\ eng' = [eng EXCEPT
                                !.j = @ + 1,
                                !.unit.track_filenames =
                                    Append(@, PlaylistTrackFile(artist, song.title, extension))]
                          /\ UNCHANGED events
                     ELSE /\ vol' = IF outcome = "write_failed"
                                    THEN create_playlist_folder(vol, playlist.name)
                                    ELSE vol
                          /\ UnitFailed(<<"Playlist", playlist.name>>)
                  /\ hist' = [hist EXCEPT
                        !.faults = @ + failures,
                        !.ops.download = @ + 1 + (IF downloaded /\ song.cover_art # None
                                                  THEN 1 ELSE 0),
                        !.ops.write = IF outcome = "ok" THEN @ + 1 ELSE @,
                        !.attempted[playlist.id] = @ \cup {t},
                        !.dl_failed[playlist.id] = IF downloaded THEN @ ELSE @ \cup {t},
                        !.cover_failed[playlist.id] = IF cover_failed THEN @ \cup {t} ELSE @,
                        !.written[playlist.id] = IF outcome = "ok" THEN @ \cup {t} ELSE @,
                        !.write_failed = IF outcome \in {"mkdir_failed", "write_failed"}
                                         THEN @ \cup {playlist.id} ELSE @,
                        !.failed_units = IF outcome = "ok" THEN @ ELSE @ \cup {playlist.id}]
    /\ UNCHANGED <<manifest, disk, idleVars>>

\* The tracks of the playlist are written: the index file, the manifest
\* record, and what the caller does with the result.
PlaylistFinish ==
    /\ \/ eng.pc = "p_write" /\ eng.j > Len(eng.unit.processed)
       \/ eng.pc = "cp_track" /\ eng.j > Len(SongsOf(eng.selection.playlists[eng.i].id))
    /\ LET playlist == eng.selection.playlists[eng.i]
           tracks == Len(eng.unit.track_filenames)
           record == [id |-> playlist.id, name |-> playlist.name, track_count |-> tracks]
       IN  \E outcome \in WriteOutcomes :
              IF outcome = "ok"
              THEN /\ vol' = write_m3u(vol, playlist.name, eng.unit.track_filenames)
                   /\ manifest' = add_playlist(manifest, record)
                   /\ hist' = [hist EXCEPT !.ops.upsert = @ + 1,
                                           !.indexed = @ \cup {playlist.id},
                                           !.recorded[playlist.id] = Some(tracks)]
                   /\ IF eng.entry = "tui" /\ tracks = 0
                      THEN /\ eng' = NextUnit(eng)
                           /\ Send([type |-> "PlaylistSkipped", name |-> playlist.name])
                      ELSE /\ eng' = NextUnit([eng EXCEPT
                                        !.result.playlists_synced = @ + 1,
                                        !.result.tracks_downloaded = @ + tracks])
                           /\ Send([type |-> "PlaylistCompleted", name |-> playlist.name])
              ELSE /\ CanFail(1)
                   /\ vol' = IF outcome = "mkdir_failed" THEN vol
                             ELSE create_playlist_folder(vol, playlist.name)
                   /\ hist' = [hist EXCEPT !.faults = @ + 1,
                                           !.write_failed = @ \cup {playlist.id},
                                           !.failed_units = @ \cup {playlist.id}]
                   /\ UnitFailed(<<"Playlist", playlist.name>>)
                   /\ UNCHANGED manifest
    /\ UNCHANGED <<disk, idleVars>>

\* A Complete event that reports the deletions asked for instead of the
\* deletions made: what CompleteCounts must tell from the counters of
\* delete_deselected.
SaveReportingRequestedDeletions ==
    /\ eng.pc = "save"
    /\ \E ok \in BOOLEAN :
          IF ok
          THEN /\ disk' = [disk EXCEPT ![eng.device] = ManifestFile(manifest)]
               /\ eng' = [eng EXCEPT !.pc = "done"]
               /\ Send([type |-> "Complete",
                        albums_synced |-> eng.result.albums_synced,
                        playlists_synced |-> eng.result.playlists_synced,
                        tracks_downloaded |-> eng.result.tracks_downloaded,
                        albums_deleted |-> Len(eng.deletions.albums),
                        playlists_deleted |-> Len(eng.deletions.playlists)])
               /\ hist' = [hist EXCEPT !.saves = @ + 1]
          ELSE /\ CanFail(1)
               /\ hist' = [hist EXCEPT !.faults = @ + 1, !.saves = @ + 1]
               /\ eng' = [eng EXCEPT !.pc = "fatal"]
               /\ Send([type |-> "Error", message |-> <<"Sync failed">>])
               /\ UNCHANGED disk
    /\ UNCHANGED <<manifest, vol, idleVars>>

\* manifest.save at the end of sync and sync_with_progress, and the Complete
\* event of sync_with_progress
Save ==
    /\ eng.pc = "save"
    /\ \E ok \in BOOLEAN :
          IF ok
          THEN /\ disk' = [disk EXCEPT ![eng.device] = ManifestFile(manifest)]
               /\ eng' = [eng EXCEPT !.pc = "done"]
               /\ Send([type |-> "Complete",
                        albums_synced |-> eng.result.albums_synced,
                        playlists_synced |-> eng.result.playlists_synced,
                        tracks_downloaded |-> eng.result.tracks_downloaded,
                        albums_deleted |-> eng.albums_deleted,
                        playlists_deleted |-> eng.playlists_deleted])
               /\ hist' = [hist EXCEPT !.saves = @ + 1]
          ELSE /\ CanFail(1)
               /\ hist' = [hist EXCEPT !.faults = @ + 1, !.saves = @ + 1]
               /\ eng' = [eng EXCEPT !.pc = "fatal"]
               /\ Send([type |-> "Error", message |-> <<"Sync failed">>])
               /\ UNCHANGED disk
    /\ UNCHANGED <<manifest, vol, idleVars>>

\* The process is killed, or the device is pulled, while the task runs.
Kill ==
    /\ eng.pc \notin {"done", "fatal", "killed"}
    /\ eng' = [eng EXCEPT !.pc = "killed"]
    /\ UNCHANGED <<manifest, vol, disk, events, hist, idleVars>>

\* The user runs the sync again with the same selection: a new engine, and
\* from the browser the deletions of the manifest now on the device.
Rerun ==
    /\ eng.pc = "done"
    /\ hist.run < MaxRuns
    /\ LET synced == SyncedIn(disk[eng.device])
           st == BrowserWith(eng.device, hist.selected.albums, hist.selected.playlists,
                             synced.albums, synced.playlists)
       IN  \E deletions \in calculate_deletions(st) :
              eng' = [NewEngine(eng.entry, eng.device, eng.selection,
                                IF eng.entry = "tui" THEN deletions ELSE NoDeletions)
                         EXCEPT !.parallel = eng.parallel]
    /\ hist' = NewRun(hist.run + 1, hist.faults, hist.selected)
    /\ events' = <<>>
    /\ manifest' = NewManifest
    /\ UNCHANGED <<vol, disk, idleVars>>

Next ==
    \/ EngineNew
    \/ StorageInit
    \/ DeleteStart
    \/ DeleteAlbum
    \/ DeletePlaylist
    \/ SendStarted
    \/ AlbumBegin
    \/ AlbumDownload
    \/ AlbumProcess
    \/ AlbumWrite
    \/ CliAlbumWrite
    \/ AlbumFinish
    \/ PlaylistBegin
    \/ PlaylistDownload
    \/ PlaylistProcess
    \/ PlaylistWrite
    \/ CliPlaylistTrack
    \/ PlaylistFinish
    \/ Save
    \/ Kill
    \/ Rerun

Spec == EngineInit /\ [][Next]_vars

\* As EngineInit, with a device whose earlier syncs recorded every album
\* under one album name (two releases that the library lists under the
\* same artist and title): the recorded albums share one directory.
SharedDirInit ==
    /\ \E base \in FirstDeviceFiles, name \in AlbumNames,
          sa \in SUBSET AlbumIds, sp \in SUBSET PlaylistIds, entry \in {"tui", "cli"} :
          LET file == IF base.kind = "ok"
                      THEN ManifestFile([base.manifest EXCEPT
                              !.synced_albums = [i \in DOMAIN @ |-> [@[i] EXCEPT !.album = name]]])
                      ELSE base
              synced == IF entry = "tui" THEN SyncedIn(file)
                        ELSE [albums |-> {}, playlists |-> {}]
              st == BrowserWith("d1", sa, sp, synced.albums, synced.playlists)
          IN  /\ disk = [d \in DeviceSet |-> IF d = "d1" THEN file ELSE AbsentFile]
              /\ vol = IF file.kind = "ok" THEN VolumeOf(file.manifest) ELSE EmptyVolume
              /\ \E selection \in build_selection(st), deletions \in calculate_deletions(st) :
                    /\ entry = "tui" => ~(is_empty(selection) /\ is_empty(deletions))
                    /\ entry = "cli" => ~is_empty(selection)
                    /\ eng = NewEngine(entry, "d1", selection,
                                       IF entry = "tui" THEN deletions ELSE NoDeletions)
              /\ hist = NewRun(1, 0, [albums |-> sa, playlists |-> sp])
    /\ events = <<>>
    /\ ChannelIdle
    /\ ManifestIdle
    /\ state = [view |-> "Exited"]
    /\ tasks = <<>>

SpecSharedDir == SharedDirInit /\ [][Next]_vars

\* The units a run checked for progress may have in its selection.
MaxFairUnits == 2

\* A sync as in EngineInit of at most MaxFairUnits selected units.  In
\* FairSpec every call the task awaits returns and every event it sends is
\* taken: the task, while it is not killed, takes its next step.
FairInit ==
    /\ EngineInit
    /\ Len(eng.selection.albums) + Len(eng.selection.playlists) <= MaxFairUnits

FairSpec ==
    /\ FairInit
    /\ [][Next]_vars
    /\ WF_vars(Next /\ eng'.pc # "killed")

(***************************************************************************)
(* SpecChannel: the progress channel between the sync task and the browser *)
(* (start_sync and run_browser_loop in src/src/browse/interactive.rs).     *)
(* The task runs sync_with_progress over a selection of albums of one      *)
(* track each with no call failing, which fixes the events it sends; the   *)
(* browser drains the channel in its loop or leaves the loop.              *)
(***************************************************************************)
\* mpsc::channel::<SyncProgressEvent>(100)
CHANNEL_CAPACITY == 100

\* The largest selection: enough albums for more events than the channel
\* holds.
ManyAlbums == 34

\* The events sync_with_progress sends, in order, for n albums to add and
\* nothing to delete.
RunEvents(n) ==
    <<[type |-> "Started", total_albums |-> n, total_playlists |-> 0]>>
    \o [k \in 1..(3 * n) |->
          LET album == (k + 2) \div 3
          IN  CASE k % 3 = 1 -> [type |-> "AlbumStarted", album |-> album, track_count |-> 1]
                [] k % 3 = 2 -> [type |-> "TrackCompleted", track_num |-> 1, total_tracks |-> 1]
                [] OTHER -> [type |-> "AlbumCompleted", album |-> album]]
    \o <<[type |-> "Complete", albums_synced |-> n, playlists_synced |-> 0,
          tracks_downloaded |-> n, albums_deleted |-> 0, playlists_deleted |-> 0]>>

\* start_sync has made the channel, stored the receiver and spawned the task.
ChannelInit ==
    /\ \E n \in {1, ManyAlbums - 1, ManyAlbums} :
          eng = [pc |-> "sending", total_albums |-> n, sent |-> 0]
    /\ chan = <<>>
    /\ received = <<>>
    /\ rx = "open"
    /\ events = <<>>
    /\ vol = EmptyVolume
    /\ hist = [run |-> 0]
    /\ ManifestIdle
    /\ state = [view |-> "SyncProgress"]
    /\ disk = [d \in DeviceSet |-> AbsentFile]
    /\ tasks = <<>>

\* A send that gives the event up when the channel is full (try_send): what
\* NoEventDropped must tell from send().await, which waits for room.
ChannelSendDropping ==
    /\ eng.pc = "sending"
    /\ LET program == RunEvents(eng.total_albums)
           ev == program[eng.sent + 1]
       IN  /\ events' = Append(events, ev)
           /\ chan' = IF rx = "open" /\ Len(chan) < CHANNEL_CAPACITY THEN Append(chan, ev)
                      ELSE chan
           /\ eng' = [eng EXCEPT !.sent = @ + 1,
                                 !.pc = IF eng.sent + 1 = Len(program) THEN "done" ELSE @]
    /\ UNCHANGED <<manifestVars, browseVars, vol, hist, received, rx>>

\* let _ = progress_tx.send(event).await: waits while the channel is full
\* and the receiver open, queues the event, or returns Err (ignored) when
\* the receiver is gone; the task then goes on to its next send.  The last
\* send, Complete, follows manifest.save and ends the run.
ChannelSend ==
    /\ eng.pc = "sending"
    /\ rx = "open" => Len(chan) < CHANNEL_CAPACITY
    /\ LET program == RunEvents(eng.total_albums)
           ev == program[eng.sent + 1]
       IN  /\ events' = Append(events, ev)
           /\ chan' = IF rx = "open" THEN Append(chan, ev) ELSE chan
           /\ eng' = [eng EXCEPT !.sent = @ + 1,
                                 !.pc = IF eng.sent + 1 = Len(program) THEN "done" ELSE @]
    /\ UNCHANGED <<manifestVars, browseVars, vol, hist, received, rx>>

\* run_browser_loop in the SyncProgress view: try_recv until the channel is
\* empty, then handle_sync_progress_event for each event taken.
ObserverDrain ==
    /\ rx = "open"
    /\ chan # <<>>
    /\ received' = received \o chan
    /\ chan' = <<>>
    /\ UNCHANGED <<manifestVars, browseVars, eng, vol, events, hist, rx>>

\* run_browser_loop returns (terminal.draw or event::poll failed, or q after
\* Complete): the receiver is dropped with what the channel holds.
ObserverExit ==
    /\ rx = "open"
    /\ rx' = "closed"
    /\ chan' = <<>>
    /\ UNCHANGED <<manifestVars, browseVars, eng, vol, events, hist, received>>

ChannelNext ==
    \/ ChannelSend
    \/ ObserverDrain
    \/ ObserverExit

SpecChannel == ChannelInit /\ [][ChannelNext]_vars

\* The runtime runs the spawned task whenever its send can complete; nothing
\* is assumed of the browser.
FairChannel == SpecChannel /\ WF_vars(ChannelSend)

(***************************************************************************)
(* SpecPipeline: the processing stage of one unit, process_tracks_parallel *)
(* (src/src/sync/pipeline.rs) and the inlined copy of it in                *)
(* sync_playlist_with_progress.  The caller spawns one task per downloaded *)
(* track, each behind a permit of the semaphore, then awaits the handles   *)
(* in the order of the tracks; the tasks run concurrently.                 *)
(***************************************************************************)
\* The largest batch of downloaded tracks and the largest parallel argument.
MaxBatch == 3

MaxParallel == 4

\* A unit has downloaded n tracks; covers[k] tells whether a processed cover
\* is at hand for track k (for an album, the same for all).
PipelineInit ==
    /\ \E parallel \in 0..MaxParallel, n \in 0..MaxBatch :
       \E covers \in [1..n -> BOOLEAN] :
          eng = [pc |-> IF n = 0 THEN "collect" ELSE "spawn",
                 parallel |-> parallel,
                 tracks |-> [k \in 1..n |->
                               [song |-> Song("a1", k), artist |-> ArtistName,
                                album |-> AlbumNameOf("a1"),
                                track_number |-> unwrap_or(Song("a1", k).track, 1)]],
                 covers |-> covers,
                 k |-> 1,
                 free |-> processing_parallelism(parallel),
                 running |-> {},
                 embedded |-> [k \in 1..n |-> FALSE],
                 handles |-> [k \in 1..n |-> None],
                 c |-> 1,
                 results |-> <<>>]
    /\ vol = EmptyVolume
    /\ events = <<>>
    /\ hist = [run |-> 0]
    /\ ChannelIdle
    /\ ManifestIdle
    /\ BrowseIdle

\* A loop that spawns the task without a permit: what ProcessingBounded
\* must tell from acquire_owned().await before tokio::spawn.
PipelineSpawnWithoutPermit ==
    /\ eng.pc = "spawn"
    /\ eng' = [eng EXCEPT !.running = @ \cup {eng.k},
                          !.k = @ + 1,
                          !.pc = IF eng.k = Len(eng.tracks) THEN "collect" ELSE @]
    /\ UNCHANGED <<manifestVars, browseVars, vol, events, hist, channelVars>>

\* One iteration of the spawn loop: waits for a permit, then spawns the task
\* of the next track, which owns the permit.
PipelineSpawn ==
    /\ eng.pc = "spawn"
    /\ eng.free > 0
    /\ eng' = [eng EXCEPT !.free = @ - 1,
                          !.running = @ \cup {eng.k},
                          !.k = @ + 1,
                          !.pc = IF eng.k = Len(eng.tracks) THEN "collect" ELSE @]
    /\ UNCHANGED <<manifestVars, browseVars, vol, events, hist, channelVars>>

\* A spawned task runs to its end: with a cover it embeds, and keeps the
\* downloaded bytes when that fails; without one it keeps them; its permit
\* is dropped with it.
PipelineTask ==
    /\ \E t \in eng.running, ok \in BOOLEAN :
          /\ ok => eng.covers[t]
          /\ eng' = [eng EXCEPT
                !.running = @ \ {t},
                !.free = @ + 1,
                !.embedded[t] = ok,
                !.handles[t] = Some([song |-> eng.tracks[t].song,
                                     final_audio_data |-> AudioData(eng.tracks[t].song, ok),
                                     artist |-> eng.tracks[t].artist,
                                     album |-> eng.tracks[t].album,
                                     track_number |-> eng.tracks[t].track_number])]
    /\ UNCHANGED <<manifestVars, browseVars, vol, events, hist, channelVars>>

\* A collecting loop that leaves out the tracks whose embedding failed:
\* what EmbeddingFallback must tell from the code, where such a task
\* returns the track with its downloaded bytes.
PipelineCollectDroppingFailed ==
    /\ eng.pc = "collect"
    /\ IF eng.c > Len(eng.tracks)
       THEN eng' = [eng EXCEPT !.pc = "done"]
       ELSE /\ eng.handles[eng.c] # None
            /\ eng' = [eng EXCEPT
                  !.c = @ + 1,
                  !.results = IF eng.covers[eng.c] /\ ~eng.embedded[eng.c] THEN @
                              ELSE Append(@, eng.handles[eng.c][1])]
    /\ UNCHANGED <<manifestVars, browseVars, vol, events, hist, channelVars>>

\* A collecting loop that takes the tasks as they finish: what StageOrder
\* must tell from awaiting the handles in spawn order.
PipelineCollectAsFinished ==
    /\ eng.pc = "collect"
    /\ IF eng.c > Len(eng.tracks)
       THEN eng' = [eng EXCEPT !.pc = "done"]
       ELSE \E k \in DOMAIN eng.handles :
               /\ eng.handles[k] # None
               /\ \A r \in DOMAIN eng.results : eng.results[r] # eng.handles[k][1]
               /\ eng' = [eng EXCEPT !.c = @ + 1,
                                     !.results = Append(@, eng.handles[k][1])]
    /\ UNCHANGED <<manifestVars, browseVars, vol, events, hist, channelVars>>

\* One iteration of the collecting loop: handle.await of the next task in
\* spawn order, whose result is pushed; after the last, the function returns.
PipelineCollect ==
    /\ eng.pc = "collect"
    /\ IF eng.c > Len(eng.tracks)
       THEN eng' = [eng EXCEPT !.pc = "done"]
       ELSE /\ eng.handles[eng.c] # None
            /\ eng' = [eng EXCEPT !.c = @ + 1,
                                  !.results = Append(@, eng.handles[eng.c][1])]
    /\ UNCHANGED <<manifestVars, browseVars, vol, events, hist, channelVars>>

PipelineNext ==
    \/ PipelineSpawn
    \/ PipelineTask
    \/ PipelineCollect

SpecPipeline == PipelineInit /\ [][PipelineNext]_vars

(***************************************************************************)
(* SpecNames: sanitize_filename applied to every name of at most           *)
(* MaxNameLen characters over the characters it replaces, whitespace and   *)
(* ordinary characters, and applied again to its own result.               *)
(***************************************************************************)
MaxNameLen == 3

NamesInit ==
    /\ \E n \in 0..MaxNameLen :
       \E name \in [1..n -> {"/", "\\", ":", "*", "?", "\"", "<", ">", "|", "NUL",
                             " ", "\t", "a", "."}] :
          eng = [pc |-> "name", input |-> name, output |-> <<>>, again |-> <<>>]
    /\ vol = EmptyVolume
    /\ events = <<>>
    /\ hist = [run |-> 0]
    /\ ChannelIdle
    /\ ManifestIdle
    /\ BrowseIdle

\* A call of sanitize_filename: on the name first, then on what the first
\* call returned.
SanitizeName ==
    /\ eng.pc \in {"name", "once"}
    /\ eng' = IF eng.pc = "name"
              THEN [eng EXCEPT !.pc = "once", !.output = sanitize_filename(eng.input)]
              ELSE [eng EXCEPT !.pc = "twice", !.again = sanitize_filename(eng.output)]
    /\ UNCHANGED <<manifestVars, browseVars, vol, events, hist, channelVars>>

SpecNames == NamesInit /\ [][SanitizeName]_vars

(***************************************************************************)
(* SpecEmbed: the embedding tasks of one unit that run at the same time,   *)
(* each a call of embed_cover_art_sync on a thread of the blocking pool    *)
(* (src/src/sync/pipeline.rs).  A task reads the system clock, builds the  *)
(* path of its temporary file from the process id, the reading and the     *)
(* extension of its track, writes its audio there, tags the file in place, *)
(* reads it back and removes it.  The reading is whatever the clock gives: *)
(* two threads may get the same one.                                       *)
(***************************************************************************)
\* The most tasks embedding at one time and the last reading of the clock.
MaxEmbeds == 2

MaxClock == 2

\* format!("nutune_embed_{}_{}.{}", std::process::id(), random_suffix,
\* file_extension), in the one process there is.
temp_path(nanos, file_extension) == <<"nutune_embed", "pid", nanos, file_extension>>

\* n tasks are about to embed, each with the extension of its track; the
\* temporary directory holds no file of theirs.
EmbedInit ==
    /\ \E n \in 1..MaxEmbeds :
       \E ext \in [1..n -> {"mp3", "flac"}] :
          eng = [pc |-> "embed",
                 clock |-> 0,
                 task |-> [t \in 1..n |->
                             [pc |-> "start", file_extension |-> ext[t],
                              temp_path |-> None, result |-> None]],
                 tmp |-> <<>>]
    /\ vol = EmptyVolume
    /\ events = <<>>
    /\ hist = [run |-> 0]
    /\ ChannelIdle
    /\ ManifestIdle
    /\ BrowseIdle

\* SystemTime::now() as nanoseconds, temp_path, File::create and write_all:
\* the file at the path, new or truncated, holds the audio of the task.
EmbedCreate ==
    /\ eng.pc = "embed"
    /\ \E t \in DOMAIN eng.task, nanos \in 0..MaxClock :
          /\ eng.task[t].pc = "start"
          /\ nanos >= eng.clock
          /\ LET path == temp_path(nanos, eng.task[t].file_extension)
             IN  eng' = [eng EXCEPT
                    !.clock = nanos,
                    !.task[t].pc = "created",
                    !.task[t].temp_path = Some(path),
                    !.tmp = (path :> [audio |-> t, cover |-> FALSE]) @@ eng.tmp]
    /\ UNCHANGED <<manifestVars, browseVars, vol, events, hist, channelVars>>

\* Probe::open, read, the cover pushed into the tag, save_to_path: the file
\* at the path of the task gets the cover; without a file there the call
\* returns an error.
EmbedSave ==
    /\ eng.pc = "embed"
    /\ \E t \in DOMAIN eng.task :
          /\ eng.task[t].pc = "created"
          /\ LET path == eng.task[t].temp_path[1]
             IN  eng' = IF path \in DOMAIN eng.tmp
                        THEN [eng EXCEPT
                                !.task[t].pc = "saved",
                                !.tmp = (path :> [eng.tmp[path] EXCEPT !.cover = TRUE]) @@ eng.tmp]
                        ELSE [eng EXCEPT !.task[t].pc = "failed"]
    /\ UNCHANGED <<manifestVars, browseVars, vol, events, hist, channelVars>>

\* fs::read and fs::remove_file: the task returns what the file at its path
\* holds and removes it; without a file there the call returns an error.
EmbedRead ==
    /\ eng.pc = "embed"
    /\ \E t \in DOMAIN eng.task :
          /\ eng.task[t].pc = "saved"
          /\ LET path == eng.task[t].temp_path[1]
             IN  eng' = IF path \in DOMAIN eng.tmp
                        THEN [eng EXCEPT
                                !.task[t].pc = "done",
                                !.task[t].result = Some(eng.tmp[path]),
                                !.tmp = [q \in DOMAIN eng.tmp \ {path} |-> eng.tmp[q]]]
                        ELSE [eng EXCEPT !.task[t].pc = "failed"]
    /\ UNCHANGED <<manifestVars, browseVars, vol, events, hist, channelVars>>

SpecEmbed == EmbedInit /\ [][EmbedCreate \/ EmbedSave \/ EmbedRead]_vars

\* handle_sync_progress_event over the events the browser has taken from
\* the channel: sync_progress.is_complete, which only Complete sets.
is_complete(taken) == \E i \in DOMAIN taken : taken[i].type = "Complete"

\* The ids a manifest lists.
ManifestIds(m) == Ids(m.synced_albums) \cup Ids(m.synced_playlists)

\* The unit the task is in the middle of, if any.
CurrentUnit ==
    CASE eng.pc \in {"a_download", "a_write", "ca_write"} -> Some(eng.selection.albums[eng.i].id)
      [] eng.pc \in {"p_download", "p_write", "cp_track"} -> Some(eng.selection.playlists[eng.i].id)
      [] OTHER -> None

\* The task has not been stopped from outside and has not given up.
Live == eng.pc \notin {"killed", "fatal"}

(***************************************************************************)
(* C2: when a run ends in which no deletion and no unit failed, the ids    *)
(* in the manifest are exactly the ids the user has selected, from either  *)
(* entry point.                                                            *)
(***************************************************************************)
FullReconciliation ==
    (eng.pc = "done" /\ hist.failed_units = {} /\ hist.failed_deletions = {}) =>
        /\ Ids(manifest.synced_albums) = hist.selected.albums
        /\ Ids(manifest.synced_playlists) = hist.selected.playlists

(***************************************************************************)
(* C3: in a second run with the same selection, no call having failed in   *)
(* either run, nothing is fetched, downloaded, written or upserted, and    *)
(* the run reports zero albums, playlists and tracks, from either entry    *)
(* point.                                                                  *)
(***************************************************************************)
SecondRunIdempotent ==
    (hist.run = 2 /\ hist.faults = 0 /\ Live) =>
        /\ hist.ops = [catalog |-> 0, download |-> 0, write |-> 0, upsert |-> 0]
        /\ eng.result = NewResult

(***************************************************************************)
(* C5: a unit is in the manifest held in memory only when none of its      *)
(* track writes is pending or has failed, and a unit upserted by the run   *)
(* had every track it downloaded written (and, for a playlist, its index   *)
(* file written) before.                                                   *)
(***************************************************************************)
UpsertAfterWrites ==
    \A id \in Units :
        /\ (CurrentUnit = Some(id) \/ id \in hist.write_failed) => id \notin ManifestIds(manifest)
        /\ hist.recorded[id] # None =>
              /\ hist.written[id] = hist.attempted[id] \ hist.dl_failed[id]
              /\ id \notin hist.write_failed
              /\ id \in PlaylistIds => id \in hist.indexed

\* One unit was upserted after two track writes, another was left out after
\* a failed write.
UpsertAfterWritesWitness ==
    /\ hist.write_failed # {}
    /\ \E id \in Units :
          /\ hist.recorded[id] # None
          /\ Cardinality(hist.written[id]) >= 2
          /\ id \in ManifestIds(manifest)

\* Every unit the manifest file of the device lists has its directory.
DiskManifestUnitsPresent ==
    LET r == load(disk[eng.device])
    IN  r.kind = "some" =>
            /\ \A k \in DOMAIN r.manifest.synced_albums :
                  AlbumDir(r.manifest.synced_albums[k].artist,
                           r.manifest.synced_albums[k].album) \in vol.dirs
            /\ \A k \in DOMAIN r.manifest.synced_playlists :
                  PlaylistDir(r.manifest.synced_playlists[k].name) \in vol.dirs

(***************************************************************************)
(* C6: when the task is killed, at whatever point of the run, every unit   *)
(* the manifest file on the device lists has its files on the device.      *)
(***************************************************************************)
CrashConsistency == eng.pc = "killed" => DiskManifestUnitsPresent

(***************************************************************************)
(* C7: at every point of a run, every album in the manifest has its album  *)
(* directory on the device and every playlist in the manifest has its      *)
(* playlist directory.                                                     *)
(***************************************************************************)
ManifestVolumeCorrespondence ==
    /\ \A k \in DOMAIN manifest.synced_albums :
          AlbumDir(manifest.synced_albums[k].artist, manifest.synced_albums[k].album)
              \in vol.dirs
    /\ \A k \in DOMAIN manifest.synced_playlists :
          PlaylistDir(manifest.synced_playlists[k].name) \in vol.dirs

(***************************************************************************)
(* C8: when some of the track downloads of an album fail, every download   *)
(* is still attempted, exactly the downloaded tracks are processed and     *)
(* written, the album is recorded with the number of downloaded tracks,    *)
(* and the failed downloads do not fail the unit.                          *)
(***************************************************************************)
AlbumPartialFailureIsolation ==
    \A id \in AlbumIds :
        LET all == DOMAIN SongsOf(id)
            ok == hist.attempted[id] \ hist.dl_failed[id]
        IN  /\ (CurrentUnit = Some(id) /\ eng.pc \in {"a_write", "ca_write"}) =>
                  /\ hist.attempted[id] = all
                  /\ {eng.unit.downloads[k].id[2] : k \in DOMAIN eng.unit.downloads} = ok
                  /\ Len(eng.unit.downloads) = Cardinality(ok)
                  /\ eng.pc = "a_write" =>
                        /\ {eng.unit.processed[k].song.id[2] : k \in DOMAIN eng.unit.processed} = ok
                        /\ Len(eng.unit.processed) = Cardinality(ok)
            /\ hist.recorded[id] # None =>
                  /\ hist.attempted[id] = all
                  /\ hist.written[id] = ok
                  /\ hist.recorded[id] = Some(Cardinality(all) - Cardinality(hist.dl_failed[id]))
                  /\ FindId(manifest.synced_albums, id)[1].track_count = Cardinality(ok)
            /\ (id \in hist.failed_units /\ id \notin hist.write_failed) => hist.attempted[id] = {}

\* An album of two tracks recorded with one track after one download failed.
AlbumPartialFailureWitness ==
    \E id \in AlbumIds :
        /\ hist.dl_failed[id] # {}
        /\ hist.dl_failed[id] # DOMAIN SongsOf(id)
        /\ hist.recorded[id] = Some(Cardinality(DOMAIN SongsOf(id)) - Cardinality(hist.dl_failed[id]))
        /\ hist.written[id] = DOMAIN SongsOf(id) \ hist.dl_failed[id]

(***************************************************************************)
(* C9: in a playlist unit a failed track download drops that track only:   *)
(* every other track is still downloaded and written and the unit does not *)
(* fail, from either entry point; a failed cover download drops no track.  *)
(***************************************************************************)
PlaylistTrackIsolation ==
    \A id \in PlaylistIds :
        /\ (id \in hist.failed_units /\ id \notin hist.write_failed) => hist.attempted[id] = {}
        /\ hist.cover_failed[id] \cap hist.dl_failed[id] = {}
        /\ hist.recorded[id] # None =>
              /\ hist.attempted[id] = DOMAIN SongsOf(id)
              /\ hist.written[id] = hist.attempted[id] \ hist.dl_failed[id]
              /\ hist.cover_failed[id] \subseteq hist.written[id]

\* The deletion entries delete_deselected has been through.
DeletionsDone ==
    LET albums == eng.deletions.albums
        playlists == eng.deletions.playlists
        AlbumsUpTo(n) == {albums[k].id : k \in 1..n}
        PlaylistsUpTo(n) == {playlists[k].id : k \in 1..n}
    IN  CASE eng.pc \in {"new", "init", "delete"} -> [albums |-> {}, playlists |-> {}]
          [] eng.pc = "del_albums" -> [albums |-> AlbumsUpTo(eng.i - 1), playlists |-> {}]
          [] eng.pc = "del_playlists" ->
                [albums |-> AlbumsUpTo(Len(albums)), playlists |-> PlaylistsUpTo(eng.i - 1)]
          [] OTHER -> [albums |-> AlbumsUpTo(Len(albums)),
                       playlists |-> PlaylistsUpTo(Len(playlists))]

(***************************************************************************)
(* C10: delete_deselected attempts every entry of the deletion set exactly *)
(* once, whatever happened to the entries before it; an entry that was     *)
(* removed is out of the manifest and counted, an entry whose removal      *)
(* failed is still in the manifest, is not counted and has its             *)
(* delete-failed event.                                                    *)
(***************************************************************************)
DeletionIsolation ==
    Live =>
        LET done == DeletionsDone
            albums == eng.deletions.albums
            playlists == eng.deletions.playlists
        IN  /\ \A k \in DOMAIN albums :
                  LET entry == albums[k]
                  IN  /\ hist.del_attempts[entry.id] = IF entry.id \in done.albums THEN 1 ELSE 0
                      /\ entry.id \in done.albums =>
                            IF entry.id \in hist.failed_deletions
                            THEN /\ is_album_synced(manifest, entry.id)
                                 /\ \E n \in DOMAIN events :
                                       events[n] = [type |-> "AlbumDeleteFailed",
                                                    artist |-> entry.artist, album |-> entry.album]
                            ELSE ~is_album_synced(manifest, entry.id)
            /\ \A k \in DOMAIN playlists :
                  LET entry == playlists[k]
                  IN  /\ hist.del_attempts[entry.id] = IF entry.id \in done.playlists THEN 1 ELSE 0
                      /\ entry.id \in done.playlists =>
                            IF entry.id \in hist.failed_deletions
                            THEN /\ is_playlist_synced(manifest, entry.id)
                                 /\ \E n \in DOMAIN events :
                                       events[n] = [type |-> "PlaylistDeleteFailed",
                                                    name |-> entry.name]
                            ELSE ~is_playlist_synced(manifest, entry.id)
            /\ eng.albums_deleted = Cardinality(done.albums \ hist.failed_deletions)
            /\ eng.playlists_deleted = Cardinality(done.playlists \ hist.failed_deletions)

\* The first album entry could not be removed, a later album entry and a
\* playlist entry were.
DeletionIsolationWitness ==
    /\ eng.pc = "started"
    /\ Len(eng.deletions.albums) = 2
    /\ eng.deletions.albums[1].id \in hist.failed_deletions
    /\ eng.albums_deleted = 1
    /\ eng.playlists_deleted = 1

(***************************************************************************)
(* C11: in sync_with_progress a unit that fails gets its Error event and   *)
(* the loop goes on: the outcome events (completed, skipped or error) are  *)
(* one per unit gone through, in the order of the selection, an Error for  *)
(* exactly the failed units; the run reaches the save with every unit gone *)
(* through, and a run that gave up after Started gave up at the save.      *)
(***************************************************************************)
UnitFailureIsolation ==
    eng.entry = "tui" =>
        LET albums == eng.selection.albums
            playlists == eng.selection.playlists
            total == Len(albums) + Len(playlists)
            IsOutcome(ev) ==
                \/ ev.type \in {"AlbumCompleted", "AlbumSkipped",
                                "PlaylistCompleted", "PlaylistSkipped"}
                \/ ev.type = "Error" /\ ev.message[1] \in {"Album", "Playlist"}
            outcomes == SelectSeq(events, IsOutcome)
            finished == CASE eng.pc \in AlbumPcs -> eng.i - 1
                          [] eng.pc \in PlaylistPcs -> Len(albums) + eng.i - 1
                          [] eng.pc \in {"save", "done"} -> total
                          [] OTHER -> 0
            started == \E n \in DOMAIN events : events[n].type = "Started"
        IN  /\ Live => Len(outcomes) = finished
            /\ (eng.pc = "fatal" /\ started) => Len(outcomes) = total
            /\ \A k \in DOMAIN outcomes :
                  /\ k <= total
                  /\ IF k <= Len(albums)
                     THEN LET album == albums[k]
                          IN  IF album.id \in hist.failed_units
                              THEN outcomes[k] = [type |-> "Error",
                                                  message |-> <<"Album", album.artist, album.name>>]
                              ELSE /\ outcomes[k].type \in {"AlbumCompleted", "AlbumSkipped"}
                                   /\ outcomes[k].album = album.name
                     ELSE LET playlist == playlists[k - Len(albums)]
                          IN  IF playlist.id \in hist.failed_units
                              THEN outcomes[k] = [type |-> "Error",
                                                  message |-> <<"Playlist", playlist.name>>]
                              ELSE /\ outcomes[k].type \in {"PlaylistCompleted", "PlaylistSkipped"}
                                   /\ outcomes[k].name = playlist.name

\* The first album failed on a track write, a later unit was synced and
\* recorded, and the run has saved the manifest and returned.
UnitFailureIsolationWitness ==
    /\ eng.entry = "tui"
    /\ eng.pc = "done"
    /\ Len(eng.selection.albums) >= 1
    /\ eng.selection.albums[1].id \in hist.write_failed
    /\ \E id \in Units \ hist.failed_units : hist.recorded[id] # None
    /\ events[Len(events)].type = "Complete"

(***************************************************************************)
(* C12: a unit that fails leaves the manifest as it was when the unit      *)
(* started.  Every step of the unit loops leaves the manifest unchanged,   *)
(* unless it is the step that ends the unit at hand with success, which    *)
(* fails no unit and changes the record of that unit only; so from the     *)
(* start of a unit to the step that fails it the manifest does not change. *)
(***************************************************************************)
UnitFailureFrame ==
    [][eng.pc \in AlbumPcs \cup PlaylistPcs =>
          \/ manifest' = manifest
          \/ /\ eng'.pc # "fatal"
             /\ hist'.failed_units = hist.failed_units
             /\ LET id == IF eng.pc \in AlbumPcs THEN eng.selection.albums[eng.i].id
                          ELSE eng.selection.playlists[eng.i].id
                    Others(records) == SelectSeq(records, LAMBDA rec : rec.id # id)
                IN  /\ id \notin hist'.failed_units
                    /\ hist.recorded[id] = None
                    /\ hist'.recorded[id] # None
                    /\ Others(manifest'.synced_albums) = Others(manifest.synced_albums)
                    /\ Others(manifest'.synced_playlists) = Others(manifest.synced_playlists)]_vars

\* The second album failed on a track write after its downloads; the first
\* album, recorded before, is in the manifest and the second is not.
UnitFailureFrameWitness ==
    /\ Len(eng.selection.albums) = 2
    /\ eng.selection.albums[2].id \in hist.write_failed
    /\ hist.attempted[eng.selection.albums[2].id] # {}
    /\ hist.recorded[eng.selection.albums[1].id] # None
    /\ Ids(manifest.synced_albums) = {eng.selection.albums[1].id}

(***************************************************************************)
(* C13: a run that fails in SyncEngine::new (the manifest file cannot be   *)
(* parsed) or in storage.init ends there: up to and including these two    *)
(* steps no deletion is attempted, no catalog or download call is made, no *)
(* track is written and the manifest file is not written: the files of    *)
(* the device stay as they are; a run that has given up takes no further   *)
(* step; an unparsable manifest file makes SyncEngine::new fail and is     *)
(* never replaced.                                                         *)
(***************************************************************************)
FatalAbortsBeforeWork ==
    [][/\ eng.pc # "fatal"
       /\ eng.pc \in {"new", "init"} =>
             /\ hist'.ops = [catalog |-> 0, download |-> 0, write |-> 0, upsert |-> 0]
             /\ \A id \in Units : hist'.del_attempts[id] = 0 /\ hist'.written[id] = {}
             /\ disk' = disk
             /\ vol' = [vol EXCEPT !.dirs = vol'.dirs]
             /\ vol.dirs \subseteq vol'.dirs
             /\ (eng.pc = "new" /\ load(disk[eng.device]).kind = "err") =>
                   eng'.pc \in {"fatal", "killed"}
       /\ disk[eng.device] = CorruptFile => disk' = disk]_vars

\* storage.init failed in a run that had deletions to make: none was
\* attempted and the only event is the error.
FatalAbortsBeforeWorkWitness ==
    /\ eng.pc = "fatal"
    /\ ~is_empty(eng.deletions)
    /\ \A id \in Units : hist.del_attempts[id] = 0
    /\ events = <<[type |-> "Error", message |-> <<"Sync failed">>]>>
    /\ disk[eng.device].kind = "ok"

(***************************************************************************)
(* C14: deletions come first.  After every step of a run, every deletion   *)
(* event sent precedes every other event; while delete_deselected runs no  *)
(* Started event has been sent and no catalog call, download, write or     *)
(* upsert has been made; a deletion is attempted only inside               *)
(* delete_deselected, and each step attempts exactly one entry.            *)
(***************************************************************************)
DeletionsFirst ==
    [][LET DeletionEvents == {"DeletionStarted", "AlbumDeleted", "AlbumDeleteFailed",
                              "PlaylistDeleted", "PlaylistDeleteFailed"}
           DeletionPcs == {"delete", "del_albums", "del_playlists", "started"}
       IN  /\ \A m, n \in DOMAIN events' :
                 (events'[m].type \in DeletionEvents /\ events'[n].type \notin DeletionEvents)
                     => m < n
           /\ eng'.pc \in DeletionPcs =>
                 /\ hist'.ops = [catalog |-> 0, download |-> 0, write |-> 0, upsert |-> 0]
                 /\ \A id \in Units : hist'.attempted[id] = {} /\ hist'.written[id] = {}
                 /\ \A n \in DOMAIN events' : events'[n].type \in DeletionEvents
           /\ (hist'.run = hist.run /\ hist'.del_attempts # hist.del_attempts) =>
                 /\ eng.pc \in {"del_albums", "del_playlists"}
                 /\ \E id \in Units :
                       hist'.del_attempts = [hist.del_attempts EXCEPT ![id] = @ + 1]]_vars

\* Two deletions were attempted, one of which failed, and the additions have
\* begun: the Started event follows the deletion events and a download has
\* been made.
DeletionsFirstWitness ==
    /\ Len(events) >= 5
    /\ events[1].type = "DeletionStarted"
    /\ events[2].type = "AlbumDeleteFailed"
    /\ events[3].type = "PlaylistDeleted"
    /\ events[4].type = "Started"
    /\ hist.ops.download > 0

(***************************************************************************)
(* C15: a run calls manifest.save at most once; the call is made when      *)
(* every unit of the selection has been gone through (it failed in this    *)
(* run or is in the manifest) and before the Complete event; a run that    *)
(* has returned Ok has made the call and the file holds the manifest, also *)
(* when every unit failed; before the save the run leaves the file alone.  *)
(***************************************************************************)
SavedOnce ==
    [][hist'.run = hist.run =>
          LET selected == Ids(eng.selection.albums) \cup Ids(eng.selection.playlists)
              Complete(evs) == \E n \in DOMAIN evs : evs[n].type = "Complete"
          IN  /\ hist'.saves <= 1
              /\ hist'.saves # hist.saves =>
                    /\ eng.pc = "save"
                    /\ \A id \in selected :
                          id \in hist.failed_units \/ id \in ManifestIds(manifest)
                    /\ ~Complete(events)
              /\ hist'.saves = hist.saves => disk' = disk /\ ~Complete(events')
              /\ eng'.pc = "done" =>
                    /\ hist'.saves = 1
                    /\ disk'[eng.device] = ManifestFile(manifest')
                    /\ eng.entry = "tui" => events'[Len(events')].type = "Complete"
              /\ eng'.pc \in AlbumPcs \cup PlaylistPcs \cup {"save"} => hist'.saves = 0]_vars

\* Both selected units failed and the run has saved the manifest and sent
\* Complete.
SavedOnceWitness ==
    /\ eng.pc = "done"
    /\ eng.entry = "tui"
    /\ hist.saves = 1
    /\ Cardinality(hist.failed_units) = 2
    /\ hist.failed_units = Ids(eng.selection.albums) \cup Ids(eng.selection.playlists)
    /\ events[Len(events)].type = "Complete"

(***************************************************************************)
(* C16: the events of a run hold at most one Complete event and nothing    *)
(* after it; a run of sync_with_progress that has returned Ok has sent it, *)
(* and its counts are those of the events before it: albums_synced the     *)
(* AlbumCompleted events, playlists_synced the PlaylistCompleted events,   *)
(* albums_deleted the AlbumDeleted events, playlists_deleted the           *)
(* PlaylistDeleted events, tracks_downloaded the tracks written by the     *)
(* units that have a completed event.                                      *)
(***************************************************************************)
CompleteCounts ==
    LET Count(type) == Len(SelectSeq(events, LAMBDA ev : ev.type = type))
        completed ==
            {eng.selection.albums[k].id : k \in
                {k \in DOMAIN eng.selection.albums :
                    \E n \in DOMAIN events :
                        /\ events[n].type = "AlbumCompleted"
                        /\ events[n].album = eng.selection.albums[k].name}}
            \cup
            {eng.selection.playlists[k].id : k \in
                {k \in DOMAIN eng.selection.playlists :
                    \E n \in DOMAIN events :
                        /\ events[n].type = "PlaylistCompleted"
                        /\ events[n].name = eng.selection.playlists[k].name}}
        RECURSIVE Written(_)
        Written(S) == IF S = {} THEN 0
                      ELSE LET id == CHOOSE id \in S : TRUE
                           IN  Cardinality(hist.written[id]) + Written(S \ {id})
    IN  eng.entry = "tui" =>
          /\ \A n \in DOMAIN events : events[n].type = "Complete" => n = Len(events)
          /\ eng.pc = "done" =>
                /\ Len(events) > 0
                /\ LET last == events[Len(events)]
                   IN  /\ last.type = "Complete"
                       /\ last.albums_synced = Count("AlbumCompleted")
                       /\ last.playlists_synced = Count("PlaylistCompleted")
                       /\ last.albums_deleted = Count("AlbumDeleted")
                       /\ last.playlists_deleted = Count("PlaylistDeleted")
                       /\ last.tracks_downloaded = Written(completed)

\* A run that removed one album, failed to remove a playlist, synced an
\* album of which one download failed and skipped nothing reports one album
\* synced, one track, one album deleted and no playlist deleted.
CompleteCountsWitness ==
    /\ eng.entry = "tui"
    /\ eng.pc = "done"
    /\ \E n \in DOMAIN events : events[n].type = "PlaylistDeleteFailed"
    /\ LET last == events[Len(events)]
       IN  /\ last.type = "Complete"
           /\ last.albums_synced = 1
           /\ last.tracks_downloaded = 1
           /\ last.albums_deleted = 1
           /\ last.playlists_deleted = 0
    /\ \E id \in AlbumIds : Cardinality(hist.dl_failed[id]) = 1 /\ Cardinality(hist.written[id]) = 1

(***************************************************************************)
(* C17: the events sync_with_progress has sent hold a message for every    *)
(* failure of the run that did not end it: the events that carry a message *)
(* (Error, AlbumDeleteFailed, PlaylistDeleteFailed) are at least as many   *)
(* as the failed deletions, failed track downloads, failed cover           *)
(* embeddings and failed units together.                                   *)
(***************************************************************************)
AuditTrail ==
    LET messages == SelectSeq(events, LAMBDA ev : ev.type \in {"Error", "AlbumDeleteFailed",
                                                               "PlaylistDeleteFailed"})
        RECURSIVE Failed(_)
        Failed(S) == IF S = {} THEN 0
                     ELSE LET id == CHOOSE id \in S : TRUE
                          IN  Cardinality(hist.dl_failed[id]) + Cardinality(hist.embed_failed[id])
                                + Failed(S \ {id})
    IN  eng.entry = "tui" =>
            Len(messages) >= Cardinality(hist.failed_deletions) + Cardinality(hist.failed_units)
                                + Failed(Units)

(***************************************************************************)
(* C18: while the receiver is open no event is lost or reordered: the      *)
(* events received followed by the events in the channel are the events    *)
(* the task has sent, also when these are more than the channel holds; the *)
(* channel never holds more than its capacity, and what has been received  *)
(* is always a prefix of what was sent.                                    *)
(***************************************************************************)
NoEventDropped ==
    /\ Len(chan) <= CHANNEL_CAPACITY
    /\ Len(received) <= Len(events)
    /\ received = SubSeq(events, 1, Len(received))
    /\ rx = "open" => received \o chan = events

\* The browser has received every event of a finished run that sent more
\* events than the channel holds, the task having waited for room.
NoEventDroppedWitness ==
    /\ rx = "open"
    /\ eng.pc = "done"
    /\ Len(events) > CHANNEL_CAPACITY
    /\ received = events
    /\ received[Len(received)].type = "Complete"

(***************************************************************************)
(* C19: whatever the browser does with the receiver, the sync task reaches *)
(* the end of its run (the manifest is saved and sync_with_progress        *)
(* returns).                                                               *)
(***************************************************************************)
ObserverNeverStalls == <>(eng.pc = "done")

(***************************************************************************)
(* C20: after every step that leaves the task in the download stage of a   *)
(* unit, the downloads in flight are at most download_parallelism, and     *)
(* they are that many while that many tracks are left; when a download     *)
(* ends, with or without success, the downloads in flight are the others   *)
(* that were in flight and the first track not yet started, if there is    *)
(* one.                                                                    *)
(***************************************************************************)
DownloadsBounded ==
    [][eng'.pc \in {"a_download", "p_download"} =>
          LET parallelism == download_parallelism(eng'.parallel)
              id == IF eng'.pc = "a_download" THEN eng'.selection.albums[eng'.i].id
                    ELSE eng'.selection.playlists[eng'.i].id
              total == Len(SongsOf(id))
              after == InFlight(eng'.unit.pending, total, parallelism)
              before == InFlight(eng.unit.pending, total, parallelism)
              unstarted == eng.unit.pending \ before
          IN  /\ Cardinality(after) <= parallelism
              /\ Cardinality(after) = IF Cardinality(eng'.unit.pending) < parallelism
                                      THEN Cardinality(eng'.unit.pending) ELSE parallelism
              /\ eng.pc = eng'.pc =>
                    \E t \in before :
                       /\ eng'.unit.pending = eng.unit.pending \ {t}
                       /\ after = (before \ {t})
                                    \cup {n \in unstarted : \A m \in unstarted : n <= m}]_vars

\* With one download at a time the first download of an album of two tracks
\* has failed and the second, not started before, is in flight.
DownloadsBoundedWitness ==
    /\ eng.pc = "a_download"
    /\ download_parallelism(eng.parallel) = 1
    /\ eng.unit.pending = {2}
    /\ hist.dl_failed[eng.selection.albums[eng.i].id] = {1}
    /\ InFlight(eng.unit.pending, 2, download_parallelism(eng.parallel)) = {2}

(***************************************************************************)
(* C21: after every step of the processing stage the tasks running are at  *)
(* most processing_parallelism and the free permits plus the running tasks *)
(* are processing_parallelism; a task is spawned only by taking a free     *)
(* permit, and a permit comes free only when one running task has ended.   *)
(***************************************************************************)
ProcessingBounded ==
    [][LET permits == processing_parallelism(eng.parallel)
       IN  /\ eng'.free >= 0
           /\ Cardinality(eng'.running) <= permits
           /\ eng'.free + Cardinality(eng'.running) = permits
           /\ eng'.running \ eng.running # {} =>
                 /\ eng.free > 0
                 /\ eng'.free = eng.free - 1
                 /\ eng'.running = eng.running \cup {eng.k}
           /\ eng'.free > eng.free =>
                 \E t \in eng.running :
                    /\ eng'.running = eng.running \ {t}
                    /\ eng'.free = eng.free + 1
                    /\ eng'.handles[t] # None]_vars

\* With parallel 4 two tasks run, no permit is free and the third track
\* waits for one, though the download limit of 4 is not reached.
ProcessingBoundedWitness ==
    /\ eng.pc = "spawn"
    /\ eng.parallel = 4
    /\ Cardinality(eng.running) = 2
    /\ eng.free = 0
    /\ eng.k = 3
    /\ Len(eng.tracks) = 3
    /\ Cardinality(eng.running) < download_parallelism(eng.parallel)

(***************************************************************************)
(* C22: for every parallel argument p, 0 and 1 included, the engine's      *)
(* download_parallelism is p and its processing_parallelism is the larger  *)
(* of 1 and the floor of p / 2, which is the number of permits of the      *)
(* processing stage; the default configuration is download 4, processing   *)
(* 2, which is also what the engine derives from the default p = 4.        *)
(***************************************************************************)
ParallelismConfig ==
    LET p == eng.parallel
        m == processing_parallelism(p)
    IN  /\ download_parallelism(p) = p
        /\ m >= 1
        /\ p < 2 => m = 1
        /\ p >= 2 => 2 * m <= p /\ p < 2 * m + 2
        /\ eng.free + Cardinality(eng.running) = m
        /\ PipelineConfigDefault = [download_parallelism |-> 4, processing_parallelism |-> 2]
        /\ PipelineConfigDefault =
              [download_parallelism |-> download_parallelism(DefaultParallel),
               processing_parallelism |-> processing_parallelism(DefaultParallel)]

\* With parallel 0 the processing stage has its one permit and a task runs
\* on it.
ParallelismConfigWitness ==
    /\ eng.parallel = 0
    /\ Cardinality(eng.running) = 1
    /\ eng.free = 0
    /\ processing_parallelism(eng.parallel) = 1

(***************************************************************************)
(* C23: a task of the processing stage always gives its track back: with   *)
(* the cover embedded, or, when embedding failed or no processed cover is  *)
(* at hand, with exactly the bytes that were downloaded; the stage returns *)
(* as many tracks as were downloaded, track for track.                     *)
(***************************************************************************)
EmbeddingFallback ==
    /\ \A t \in DOMAIN eng.handles :
          eng.handles[t] # None =>
             LET out == eng.handles[t][1]
             IN  /\ out.song = eng.tracks[t].song
                 /\ eng.embedded[t] => eng.covers[t]
                 /\ ~eng.embedded[t] =>
                       out.final_audio_data = AudioData(eng.tracks[t].song, FALSE)
    /\ Len(eng.results) = eng.c - 1
    /\ eng.pc = "done" =>
          /\ Len(eng.results) = Len(eng.tracks)
          /\ \A k \in DOMAIN eng.results : eng.results[k].song = eng.tracks[k].song
          /\ eng.results = process_tracks_parallel(eng.tracks, eng.embedded)

\* Of three downloaded tracks one had no cover, one failed to embed and one
\* was embedded; the stage has returned all three.
EmbeddingFallbackWitness ==
    /\ eng.pc = "done"
    /\ Len(eng.results) = 3
    /\ \E t, u, v \in DOMAIN eng.tracks :
          /\ ~eng.covers[t]
          /\ eng.covers[u] /\ ~eng.embedded[u]
          /\ eng.embedded[v]
          /\ eng.results[u].final_audio_data = AudioData(eng.tracks[u].song, FALSE)

(***************************************************************************)
(* C24: the index file of a synced playlist is the line "#EXTM3U" followed *)
(* by the file names the unit's track writes returned, in the order of the *)
(* writes; every entry is the name alone of a file of the playlist's own   *)
(* directory, and there are as many entries as the track_count the         *)
(* manifest records for the playlist.                                      *)
(***************************************************************************)
PlaylistIndex ==
    [][LET playlist == eng.selection.playlists[eng.i]
           dir == PlaylistDir(playlist.name)
           IndexFiles(v, d) == {f \in v.m3u : f[1] = d}
           Bare(name) == /\ Len(name) = 3
                         /\ \A c \in Range(name[1]) \cup Range(name[2]) :
                               c \notin {"/", "\\"}
       IN  /\ \* a track write returns the name of the file it wrote
              (eng.pc \in {"p_write", "cp_track"} /\ hist'.ops.write = hist.ops.write + 1) =>
                 \E f \in vol'.playlist_tracks :
                    /\ f[1] = dir
                    /\ Bare(f[2])
                    /\ eng'.unit.track_filenames = Append(eng.unit.track_filenames, f[2])
           /\ \* the index is made of the names returned, in their order
              (hist'.indexed \ hist.indexed # {}) =>
                 /\ hist'.indexed = hist.indexed \cup {playlist.id}
                 /\ IndexFiles(vol', dir) =
                       {<<dir, <<"#EXTM3U">> \o eng.unit.track_filenames>>}
                 /\ FindId(manifest'.synced_playlists, playlist.id) # None
                 /\ FindId(manifest'.synced_playlists, playlist.id)[1].track_count =
                       Len(eng.unit.track_filenames)
           /\ \* and stays so to the end of the run
              \A id \in hist'.indexed :
                 LET record == FindId(manifest'.synced_playlists, id)
                 IN  /\ record # None
                     /\ \E f \in vol'.m3u :
                           /\ IndexFiles(vol', PlaylistDir(record[1].name)) = {f}
                           /\ Head(f[2]) = "#EXTM3U"
                           /\ Len(f[2]) = 1 + record[1].track_count
                           /\ \A k \in 2..Len(f[2]) :
                                 \E t \in vol'.playlist_tracks :
                                    t[1] = f[1] /\ t[2] = f[2][k]
      ]_vars

\* The playlist was synced with two tracks of different names; its index
\* lists the first before the second.
PlaylistIndexWitness ==
    /\ "p1" \in hist.indexed
    /\ \E f \in vol.m3u :
          /\ f[1] = PlaylistDir(PlaylistName)
          /\ Len(f[2]) = 3
          /\ f[2][2] = PlaylistTrackFile(ArtistName, Song("p1", 1).title, "mp3")
          /\ f[2][3] = PlaylistTrackFile(ArtistName, Song("p1", 2).title, "mp3")

(***************************************************************************)
(* C25: an album the run has recorded has as many track files in its       *)
(* directory Artists/<artist>/<album>/ as the track_count of its record,   *)
(* and when all its downloads succeeded that number is the number of its   *)
(* tracks; a run of that one album reports one album and as many tracks.   *)

(***************************************************************************)
(* C26: what sanitize_filename returns holds none of the characters        *)
(* / \ : * ? " < > | NUL, neither starts nor ends with whitespace, is the  *)
(* name without its leading and trailing whitespace in which every other   *)
(* character is kept as it is and where it is, and is returned unchanged   *)
(* when the function is applied to it.                                     *)
(***************************************************************************)
SanitizedNames ==
    eng.pc \in {"once", "twice"} =>
        LET in == eng.input
            out == eng.output
            Unsafe == {"/", "\\", ":", "*", "?", "\"", "<", ">", "|", "NUL"}
        IN  /\ \A i \in DOMAIN out : out[i] \notin Unsafe
            /\ out # <<>> => ~IsWhitespace(out[1]) /\ ~IsWhitespace(out[Len(out)])
            /\ \E lead \in 0..Len(in) :
                  /\ lead + Len(out) <= Len(in)
                  /\ \A i \in DOMAIN in :
                        (i <= lead \/ i > lead + Len(out)) => IsWhitespace(in[i])
                  /\ \A i \in DOMAIN out :
                        /\ in[lead + i] \notin Unsafe => out[i] = in[lead + i]
                        /\ in[lead + i] \in Unsafe => out[i] # in[lead + i]
            /\ eng.pc = "twice" => eng.again = out

\* A name that starts with whitespace, goes on with an unsafe character and
\* ends with an ordinary one has been sanitized twice.
SanitizedNamesWitness ==
    /\ eng.pc = "twice"
    /\ Len(eng.input) = 3
    /\ IsWhitespace(eng.input[1])
    /\ eng.input[2] = "/"
    /\ eng.input[3] = "a"
    /\ eng.output = <<"U+29F8", "a">>
    /\ eng.again = eng.output

(***************************************************************************)
(* C27: a browser session has at most one sync task; a task is spawned     *)
(* only from a view other than SyncProgress and only when none was spawned *)
(* before, the spawn puts the browser in the SyncProgress view, and no key *)
(* pressed in that view spawns a task or leads to another view than the    *)
(* end of the session.                                                     *)
(***************************************************************************)
SingleWriter ==
    [][/\ Len(tasks') <= 1
       /\ tasks' # tasks =>
             /\ tasks = <<>>
             /\ state.view # "SyncProgress"
             /\ state'.view = "SyncProgress"
             /\ ~state'.is_complete
             /\ tasks'[1].device = state.selected_device[1]
       /\ state.view = "SyncProgress" =>
             /\ tasks' = tasks
             /\ state'.view \in {"SyncProgress", "Exited"}
       /\ state'.view = "SyncProgress" => Len(tasks') = 1
      ]_vars

\* The one task of the session is running with the browser in the progress
\* view, where the selection that started it would start another.
SingleWriterWitness ==
    /\ Len(tasks) = 1
    /\ state.view = "SyncProgress"
    /\ ~state.is_complete
    /\ \E selection \in build_selection(state) : ~is_empty(selection)

(***************************************************************************)
(* C28: when the engine reaches a unit whose id is in the manifest, it     *)
(* goes on to the next unit without a catalog, cover or track download     *)
(* call, without a write to the volume and without a change of the         *)
(* manifest; where the run has a progress channel, the one event it emits  *)
(* is the skipped event of the unit, and no started event.                 *)
(***************************************************************************)
ManifestHit ==
    [][LET album == eng.selection.albums[eng.i]
           playlist == eng.selection.playlists[eng.i]
           hit == \/ eng.pc = "albums" /\ is_album_synced(manifest, album.id)
                  \/ eng.pc = "playlists" /\ is_playlist_synced(manifest, playlist.id)
           skipped == IF eng.pc = "albums"
                      THEN [type |-> "AlbumSkipped", artist |-> album.artist,
                            album |-> album.name]
                      ELSE [type |-> "PlaylistSkipped", name |-> playlist.name]
       IN  (hit /\ eng'.pc # "killed") =>
              /\ hist' = hist
              /\ vol' = vol
              /\ manifest' = manifest
              /\ disk' = disk
              /\ events' = IF eng.entry = "tui" THEN Append(events, skipped) ELSE events
              /\ eng'.pc # eng.pc \/ eng'.i = eng.i + 1
      ]_vars

\* A run with a progress channel has just passed album a1, which the
\* manifest listed before the run: no call was made for it and the last
\* event is its skipped event.
ManifestHitWitness ==
    /\ eng.entry = "tui"
    /\ is_album_synced(manifest, "a1")
    /\ hist.recorded["a1"] = None
    /\ hist.attempted["a1"] = {}
    /\ events # <<>>
    /\ events[Len(events)] = [type |-> "AlbumSkipped", artist |-> ArtistName,
                              album |-> AlbumNameOf("a1")]

(***************************************************************************)
(* C29: in a run with a progress channel, the units for which a manifest   *)
(* record was upserted during the run, the units for which a completed     *)
(* event was emitted and the units counted in albums_synced and            *)
(* playlists_synced are the same; a skipped event is emitted only for a    *)
(* unit that was in the manifest when it was reached, which therefore has  *)
(* no record upserted during the run.                                      *)
(***************************************************************************)
UpsertCompletedCounted ==
    eng.entry = "tui" =>
        LET upserted == {id \in Units : hist.recorded[id] # None}
            EventsOf(type) == {k \in DOMAIN events : events[k].type = type}
            completed == {id \in AlbumIds : \E k \in EventsOf("AlbumCompleted") :
                                               events[k].album = AlbumNameOf(id)}
                           \cup {id \in PlaylistIds : EventsOf("PlaylistCompleted") # {}}
            skipped == {id \in AlbumIds : \E k \in EventsOf("AlbumSkipped") :
                                             events[k].album = AlbumNameOf(id)}
                         \cup {id \in PlaylistIds : EventsOf("PlaylistSkipped") # {}}
        IN  /\ upserted = completed
            /\ eng.result.albums_synced = Cardinality(upserted \cap AlbumIds)
            /\ eng.result.playlists_synced = Cardinality(upserted \cap PlaylistIds)
            /\ Cardinality(EventsOf("AlbumCompleted")) = eng.result.albums_synced
            /\ Cardinality(EventsOf("PlaylistCompleted")) = eng.result.playlists_synced
            /\ skipped \cap upserted = {}

(***************************************************************************)
(* C30: the units are processed one after the other, the albums in the     *)
(* order of the selection and then the playlists in the order of the       *)
(* selection, each ending with exactly one terminal event (completed,      *)
(* skipped or error); a unit whose pipeline runs emits its started event,  *)
(* then track progress, then its terminal event, and between its started   *)
(* event and its terminal event there is no event of another unit.         *)
(***************************************************************************)
UnitOrder ==
    eng.entry = "tui" =>
        LET opening == {k \in DOMAIN events : events[k].type = "Started"}
            first == IF opening = {} THEN Len(events) + 1 ELSE CHOOSE k \in opening : TRUE
            body == SubSeq(events, first + 1, Len(events))
            IsStarted(ev) == ev.type \in {"AlbumStarted", "PlaylistStarted"}
            OfUnit(message) == message[1] \in {"Album", "Playlist"}
            IsTerminal(ev) ==
                \/ ev.type \in {"AlbumCompleted", "AlbumSkipped", "PlaylistCompleted",
                                "PlaylistSkipped"}
                \/ ev.type = "Error" /\ OfUnit(ev.message)
            \* the event that ends the run: Complete, or the error of the run
            IsClosing(ev) == \/ ev.type = "Complete"
                             \/ ev.type = "Error" /\ ~OfUnit(ev.message)
            UnitOf(ev) ==
                CASE ev.type \in {"AlbumStarted", "AlbumCompleted", "AlbumSkipped"} ->
                        <<"Album", ev.album>>
                  [] ev.type \in {"PlaylistStarted", "PlaylistCompleted", "PlaylistSkipped"} ->
                        <<"Playlist", ev.name>>
                  [] OTHER -> <<ev.message[1], ev.message[Len(ev.message)]>>
            order == [k \in DOMAIN eng.selection.albums |->
                         <<"Album", eng.selection.albums[k].name>>]
                     \o [k \in DOMAIN eng.selection.playlists |->
                            <<"Playlist", eng.selection.playlists[k].name>>]
            terminals == SelectSeq(body, IsTerminal)
            Before(k) == Len(SelectSeq(SubSeq(body, 1, k - 1), IsTerminal))
        IN  /\ Cardinality(opening) <= 1
            /\ Len(terminals) <= Len(order)
            /\ \A k \in DOMAIN terminals : UnitOf(terminals[k]) = order[k]
            /\ eng.pc \in AlbumPcs => eng.i = Len(terminals) + 1
            /\ eng.pc \in PlaylistPcs =>
                  Len(eng.selection.albums) + eng.i = Len(terminals) + 1
            /\ eng.pc \in {"save", "done"} => Len(terminals) = Len(order)
            /\ \A k \in DOMAIN body :
                  /\ IsStarted(body[k]) \/ IsTerminal(body[k]) \/ IsClosing(body[k])
                        \/ body[k].type = "TrackCompleted"
                  /\ IsStarted(body[k]) =>
                        /\ k = 1 \/ IsTerminal(body[k - 1])
                        /\ UnitOf(body[k]) = order[Before(k) + 1]
                        /\ k < Len(body) => body[k + 1].type = "TrackCompleted"
                  /\ body[k].type = "TrackCompleted" =>
                        /\ k > 1
                        /\ IsStarted(body[k - 1]) \/ body[k - 1].type = "TrackCompleted"
                        /\ k < Len(body) => IsTerminal(body[k + 1])
                                               \/ body[k + 1].type = "TrackCompleted"
                  /\ IsClosing(body[k]) => k = Len(body) /\ Len(terminals) = Len(order)

\* A run of album a1, album a2 and the playlist has ended: a1 was written,
\* a2 failed after its track progress, the playlist was written.
UnitOrderWitness ==
    /\ eng.entry = "tui"
    /\ eng.pc = "done"
    /\ Len(eng.selection.albums) = 2
    /\ Len(eng.selection.playlists) = 1
    /\ \E k \in DOMAIN events :
          /\ k + 9 = Len(events)
          /\ events[k].type = "AlbumStarted"
          /\ events[k + 1].type = "TrackCompleted"
          /\ events[k + 2].type = "AlbumCompleted"
          /\ events[k + 3].type = "AlbumStarted"
          /\ events[k + 4].type = "TrackCompleted"
          /\ events[k + 5].type = "Error"
          /\ events[k + 6].type = "PlaylistStarted"
          /\ events[k + 7].type = "TrackCompleted"
          /\ events[k + 8].type = "PlaylistCompleted"
          /\ events[k + 9].type = "Complete"

(***************************************************************************)
AlbumFileCount ==
    \A id \in AlbumIds :
        hist.recorded[id] # None =>
            LET dir == AlbumDir(ArtistName, AlbumNameOf(id))
                files == {f \in vol.album_tracks : f[1] = dir}
                FileOf(t) == LET song == Song(id, t)
                             IN  AlbumTrackFile(unwrap_or(song.track, 1), song.title,
                                                unwrap_or(song.suffix, DEFAULT_SUFFIX))
                written == {FileOf(t) : t \in hist.written[id]}
                n == Len(SongsOf(id))
            IN  /\ written \subseteq {f[2] : f \in files}
                /\ Cardinality(written) = hist.recorded[id][1]
                /\ hist.dl_failed[id] = {} =>
                      /\ Cardinality(files) = n
                      /\ hist.recorded[id][1] = n
                      /\ (eng.pc = "done" /\ hist.selected.albums = {id}) =>
                            /\ eng.result.albums_synced = 1
                            /\ eng.result.tracks_downloaded >= n

(***************************************************************************)
(* C31: every entry of the deletion set handed to the sync task names an   *)
(* id that the manifest of the device the task runs against (the selected  *)
(* device) records, whatever devices were detected and selected and        *)
(* whatever was toggled before.                                            *)
(***************************************************************************)
DeletionsOfSelectedDevice ==
    \A k \in DOMAIN tasks :
        LET r == load(disk[tasks[k].device])
            deletions == tasks[k].deletions
        IN  /\ \A i \in DOMAIN deletions.albums :
                  /\ r.kind = "some"
                  /\ deletions.albums[i].id \in Ids(r.manifest.synced_albums)
            /\ \A i \in DOMAIN deletions.playlists :
                  /\ r.kind = "some"
                  /\ deletions.playlists[i].id \in Ids(r.manifest.synced_playlists)

(***************************************************************************)
(* C32: when every collaborator call returns and every event is taken, a   *)
(* run that has begun ends, whatever the selection, the deletion set, the  *)
(* download parallelism (of at least one) and the failures: with the       *)
(* manifest saved and, on the progress channel, Complete as the last       *)
(* event, or with an error returned.                                       *)
(***************************************************************************)
RunEnds ==
    /\ (eng.pc = "new") ~> (eng.pc \in {"done", "fatal", "killed"})
    /\ [](eng.pc = "done" =>
             /\ hist.saves = 1
             /\ eng.entry = "tui" => events[Len(events)].type = "Complete")

\* A run with a deletion, an album and a playlist, and as many failures as
\* the behaviour may have, has ended with its Complete event.
RunEndsWitness ==
    /\ eng.pc = "done"
    /\ eng.entry = "tui"
    /\ hist.faults = MaxFaults
    /\ Len(eng.deletions.albums) = 1
    /\ Len(eng.selection.albums) = 1
    /\ Len(eng.selection.playlists) = 1
    /\ events[Len(events)].type = "Complete"

(***************************************************************************)
(* C33: within a unit the download, processing and write stages run        *)
(* concurrently: while some tracks of the unit are still being downloaded, *)
(* a track of the unit that is already downloaded can be processed or      *)
(* written.                                                                *)
(***************************************************************************)
StagesOverlap ==
    (/\ eng.pc \in {"a_download", "p_download"}
     /\ eng.unit.downloads # <<>>
     /\ eng.unit.pending # {}) =>
        ENABLED (AlbumProcess \/ AlbumWrite \/ PlaylistProcess \/ PlaylistWrite)

(***************************************************************************)
(* C34: the processing stage returns one track for each downloaded track,  *)
(* in the order of the downloaded list, whatever the order in which the    *)
(* tasks finish: at every moment the collected tracks are the first tracks *)
(* of the input, each with the song, artist, album and track number of its *)
(* input, and when the stage has returned they are all of them; until it   *)
(* returns, a spawn, a task or the collecting loop can take a step.        *)
(***************************************************************************)
StageOrder ==
    /\ Len(eng.results) <= Len(eng.tracks)
    /\ \A k \in DOMAIN eng.results :
          /\ eng.results[k].song = eng.tracks[k].song
          /\ eng.results[k].artist = eng.tracks[k].artist
          /\ eng.results[k].album = eng.tracks[k].album
          /\ eng.results[k].track_number = eng.tracks[k].track_number
    /\ eng.pc = "done" => Len(eng.results) = Len(eng.tracks)
    /\ eng.pc # "done" => ENABLED PipelineNext

\* The task of the third track has finished before the task of the second,
\* and the first track has been collected.
StageOrderWitness ==
    /\ Len(eng.tracks) = 3
    /\ Len(eng.results) = 1
    /\ eng.handles[3] # None
    /\ eng.handles[2] = None
    /\ 2 \in eng.running

(***************************************************************************)
(* C35: two embedding tasks that are both between creating their temporary *)
(* file and removing it never have the same temporary file path.           *)
(***************************************************************************)
TempFileUnique ==
    eng.pc = "embed" =>
       \A t, u \in DOMAIN eng.task :
          (/\ t # u
           /\ eng.task[t].pc \in {"created", "saved"}
           /\ eng.task[u].pc \in {"created", "saved"}) =>
              eng.task[t].temp_path # eng.task[u].temp_path

(***************************************************************************)
(* C36: a sync task that has something to delete is spawned only by a step *)
(* that leaves the confirmation view for the progress view, and what it    *)
(* deletes is what that view held as pending deletions; a step from the    *)
(* confirmation view back to the artists (Esc) clears the pending          *)
(* selection and deletions and spawns nothing, and so does no other step   *)
(* that leaves the confirmation view for another view than progress.       *)
(***************************************************************************)
ConfirmedDeletions ==
    [][/\ (/\ Len(tasks') > Len(tasks)
           /\ ~is_empty(tasks'[Len(tasks')].deletions)) =>
              /\ state.view = "SyncConfirmation"
              /\ state.pending_deletions = Some(tasks'[Len(tasks')].deletions)
              /\ state'.view = "SyncProgress"
       /\ (state.view = "SyncConfirmation" /\ state'.view # "SyncProgress") =>
              tasks' = tasks
       /\ (state.view = "SyncConfirmation" /\ state'.view = "Artists") =>
              /\ state'.sync_selection = None
              /\ state'.pending_deletions = None]_vars

\* A sync with an album to delete runs, started from the confirmation view.
ConfirmedDeletionsWitness ==
    /\ state.view = "SyncProgress"
    /\ tasks # <<>>
    /\ tasks[Len(tasks)].deletions.albums # <<>>
    /\ state.pending_deletions = Some(tasks[Len(tasks)].deletions)

(***************************************************************************)
(* C37: when the sync task started from the browser has ended, by the end  *)
(* of the run, by a fatal error of the run or because the engine could not *)
(* be created, the events it has sent make sync_progress.is_complete true  *)
(* in the browser, so that q leaves the progress view.                     *)
(***************************************************************************)
ProgressQuittable ==
    (eng.entry = "tui" /\ eng.pc \in {"done", "fatal"}) => is_complete(events)

(***************************************************************************)
(* C38: a step of the album loop of delete_deselected that removes files   *)
(* keeps every file in the directory of every album that is recorded in    *)
(* the manifest after the step.                                            *)
(***************************************************************************)
DeletionSparesRecorded ==
    [][(eng.pc = "del_albums" /\ vol' # vol) =>
          \A i \in DOMAIN manifest'.synced_albums :
             LET rec == manifest'.synced_albums[i]
             IN  \A f \in vol.album_tracks :
                    f[1] = AlbumDir(rec.artist, rec.album) => f \in vol'.album_tracks]_vars

(***************************************************************************)
(* C39: for every name, the directory the storage layer builds for a       *)
(* playlist of that name lies strictly below the Playlists directory, and  *)
(* the directory it builds for an album of that artist and album name      *)
(* strictly below the Artists directory.  A component that is empty or "." *)
(* stays in the directory it is joined to, ".." goes to its parent, any    *)
(* other component goes one level down.                                    *)
(***************************************************************************)
PathContainment ==
    eng.pc = "once" =>
       LET Levels(component) == CASE component \in {<<>>, <<".">>} -> 0
                                  [] component = <<".", ".">> -> 0 - 1
                                  [] OTHER -> 1
           playlist == PlaylistDir(eng.input)
           album == AlbumDir(eng.input, eng.input)
       IN  /\ playlist[2] = eng.output
           /\ Levels(playlist[2]) >= 1
           /\ Levels(album[2]) >= 0
           /\ Levels(album[2]) + Levels(album[3]) >= 1

====
